---- MODULE Spec2Model ----
(***************************************************************************)
(* Sentinel AI: the risk scorer, the Jira notification dispatcher, the     *)
(* scan fan-out, the consensus engine and the GitHub webhook, as state     *)
(* machines translated from the Python sources.                            *)
(***************************************************************************)
EXTENDS Integers, Sequences, FiniteSets, TLC

VARIABLES
    scan_results,          \* table scan_results: Seq of rows, id = position
    jira_issues,           \* table jira_issues: Seq of rows
    jira_processed_scans,  \* table jira_processed_scans: Seq of scan_result_id
    tracker,               \* the Jira project: Seq of tickets, key = position
    run,                   \* locals of the process_new_findings call in each worker slot
    handled,               \* history: scans iterated by ticks that returned normally,
                           \*   with no scan result arrived since
    faults,                \* failures of store / tracker calls so far
    triggers,              \* trigger_processing tasks run so far
    marks,                 \* history: INSERTs mark_scan_processed executed, per scan id
    scan,                  \* locals of the run_security_scan call
    task,                  \* the analyze_with_semaphore coroutines of the scan, by position
    SEM,                   \* permits left in the scan's asyncio.Semaphore
    gemini_available,      \* gemini_client.available
    webhook_log,           \* history: requests POSTed to /webhook with their responses
    source_code,           \* the Python file handed to the parser: its def nodes in order
    parsed,                \* history: the lists parse_fastapi_code returned for it
    cycle,                 \* locals of the red-team cycle call
    session,               \* Finding objects added to the db session, not yet committed
    findings,              \* table findings of the red-team service: committed rows
    fetched,               \* history: the last fetch_vulnerabilities call and its result
    all_items,             \* run_security_scan: the items extracted so far
    endpoint_keys,         \* run_security_scan: the keys seen so far
    walked,                \* the files of the archive walked so far, in order
    filtered,              \* history: the last filter_qualifying_vulnerabilities call
    request                \* locals of the _retry_request call, the sleeps it made

dispVars == <<scan_results, jira_issues, jira_processed_scans, tracker, run, handled,
              faults, triggers, marks>>

scanVars == <<scan, task, SEM, gemini_available>>

hookVars == <<webhook_log>>

parseVars == <<source_code, parsed>>

redVars == <<cycle, session, findings, fetched>>

walkVars == <<all_items, endpoint_keys, walked>>

filterVars == <<filtered>>

retryVars == <<request>>

moreVars == <<walkVars, filterVars, retryVars>>

toolVars == <<parseVars, redVars, moreVars>>

vars == <<dispVars, scanVars, hookVars, toolVars>>

\* ---------------------------------------------------------------- bounds
MaxScans == 2
MaxFaults == 1
MaxTriggers == 1
OverlapScans == 2

\* ---------------------------------------------------------------- helpers
Min(a, b) == IF a < b THEN a ELSE b
Max(a, b) == IF a > b THEN a ELSE b

\* Python int(n / d) for d > 0: float division, then truncation toward zero.
PyIntDiv(n, d) == IF n >= 0 THEN n \div d ELSE -((-n) \div d)

\* ---------------------------------------------------------------- risk scorer
\* worker/celery_worker.py: the weight table of calculate_score, default 5.
Weight(v_type) ==
    CASE v_type = "BOLA" -> 25
      [] v_type = "IDOR" -> 20
      [] v_type = "Privilege Escalation" -> 20
      [] v_type = "Missing Authentication" -> 15
      [] v_type = "Missing Role Guard" -> 10
      [] v_type = "Inconsistent Middleware" -> 8
      [] OTHER -> 5

\* base_score after the loop over vulnerabilities[1..n].
RECURSIVE BaseScore(_, _)
BaseScore(vulnerabilities, n) ==
    IF n = 0 THEN 100
    ELSE BaseScore(vulnerabilities, n - 1)
         - PyIntDiv(Weight(vulnerabilities[n].vulnerability_type)
                    * vulnerabilities[n].confidence, 100)

\* The clamp without its lower end.
FinalScoreNoFloor(base_score) == Min(100, base_score)

FinalScore(base_score) == Max(0, Min(100, base_score))

\* The bands with < where the code has <=.
SeverityOfStrict(final_score) ==
    IF final_score < 30 THEN "Critical"
    ELSE IF final_score < 60 THEN "High"
    ELSE IF final_score < 80 THEN "Medium"
    ELSE "Low"

SeverityOf(final_score) ==
    IF final_score <= 30 THEN "Critical"
    ELSE IF final_score <= 60 THEN "High"
    ELSE IF final_score <= 80 THEN "Medium"
    ELSE "Low"

calculate_score(vulnerabilities) ==
    LET final_score == FinalScore(BaseScore(vulnerabilities, Len(vulnerabilities)))
    IN  [score |-> final_score, severity |-> SeverityOf(final_score)]

\* ---------------------------------------------------------------- dispatcher
\* Worker slots that can run process_new_findings (the beat task or trigger_processing).
Slots == {"slot1", "slot2"}

Vuln(p, t, c) == [path |-> p, vulnerability_type |-> t, confidence |-> c]

\* Vulnerability lists a scan can persist; the row's severity is computed from
\* the list by calculate_score, as run_security_scan does.
ScanLists ==
    { << Vuln("/api/orders/{id}", "BOLA", 100), Vuln("/api/users", "BOLA", 100),
         Vuln("/api/orders/{id}", "IDOR", 100) >>,
      << Vuln("/api/orders/{id}", "BOLA", 100),
         Vuln("/api/orders/{id}", "SQL Injection", 100),
         Vuln("/api/orders/{id}", "BOLA", 100) >>,
      << Vuln("/api/orders/{id}", "BOLA", 90) >> }

\* The lists of the overlap specification: one finding reported twice (High).
OverlapLists ==
    { << Vuln("/api/orders/{id}", "BOLA", 100), Vuln("/api/orders/{id}", "BOLA", 100) >> }

RepoName == "acme/shop"

ScanRow(vulns) ==
    LET score_data == calculate_score(vulns)
    IN  [repo_name |-> RepoName, auth_integrity_score |-> score_data.score,
         severity |-> score_data.severity, vulnerabilities |-> vulns]

\* jira-service/config.py, severity_filter.py
QUALIFYING_SEVERITIES == {"High", "Critical"}
CRITICAL_VULN_TYPES == {"BOLA", "IDOR", "Missing Authentication", "Privilege Escalation"}
MAJOR_VULN_TYPES == {"Missing Role Guard", "Inconsistent Middleware"}
HIGH_CONFIDENCE_THRESHOLD == 55
FETCH_LIMIT == 50

is_qualifying_vulnerability(vuln, scan_severity) ==
    IF scan_severity \notin QUALIFYING_SEVERITIES THEN FALSE
    ELSE IF vuln.confidence < HIGH_CONFIDENCE_THRESHOLD THEN FALSE
    ELSE IF vuln.vulnerability_type \in CRITICAL_VULN_TYPES
            \/ vuln.vulnerability_type \in MAJOR_VULN_TYPES THEN TRUE
    ELSE IF scan_severity = "Critical" THEN TRUE
    ELSE FALSE

\* The indices (0-based, as enumerate gives them) of the qualifying entries, in order.
filter_qualifying_vulnerabilities(vulnerabilities, scan_severity) ==
    LET f[n \in 0..Len(vulnerabilities)] ==
            IF n = 0 THEN << >>
            ELSE IF is_qualifying_vulnerability(vulnerabilities[n], scan_severity)
                 THEN Append(f[n - 1], n - 1)
                 ELSE f[n - 1]
    IN  f[Len(vulnerabilities)]

IsProcessed(scan_id) ==
    \E i \in DOMAIN jira_processed_scans : jira_processed_scans[i] = scan_id

\* SELECT ... LEFT JOIN jira_processed_scans ... WHERE jps.id IS NULL AND severity IN
\* ('High','Critical') ORDER BY timestamp ASC LIMIT 50.  Rows are inserted with the
\* default CURRENT_TIMESTAMP, so timestamp order is insertion (id) order.
get_unprocessed_scan_results ==
    LET f[n \in 0..Len(scan_results)] ==
            IF n = 0 THEN << >>
            ELSE IF ~IsProcessed(n) /\ scan_results[n].severity \in {"High", "Critical"}
                 THEN Append(f[n - 1], n)
                 ELSE f[n - 1]
        rows == f[Len(scan_results)]
    IN  SubSeq(rows, 1, Min(Len(rows), FETCH_LIMIT))

\* The Open rows find_existing_issue's query matches.
OpenRows(repo_name, endpoint_or_file, vulnerability_type) ==
    { i \in DOMAIN jira_issues :
        /\ jira_issues[i].repo_name = repo_name
        /\ jira_issues[i].endpoint_or_file = endpoint_or_file
        /\ jira_issues[i].vulnerability_type = vulnerability_type
        /\ jira_issues[i].jira_status = "Open" }

\* The INSERT without the UNIQUE constraint and ON CONFLICT DO NOTHING.
InsertProcessedNoConflict(table, scan_result_id) == Append(table, scan_result_id)

\* INSERT INTO jira_processed_scans ... ON CONFLICT DO NOTHING, scan_result_id UNIQUE.
InsertProcessed(table, scan_result_id) ==
    IF \E i \in DOMAIN table : table[i] = scan_result_id
    THEN table
    ELSE Append(table, scan_result_id)

IdleRun == [pc |-> "idle", scans |-> << >>, k |-> 0, qualifying |-> << >>, j |-> 0,
            existing_key |-> {}, total_created |-> 0, total_comments |-> 0]

\* The empty tables, idle workers; spent of the MaxFaults failures already happened.
DispInitWith(spent) ==
    /\ scan_results = << >>
    /\ jira_issues = << >>
    /\ jira_processed_scans = << >>
    /\ tracker = << >>
    /\ run = [r \in Slots |-> IdleRun]
    /\ handled = {}
    /\ faults = spent
    /\ triggers = 0
    /\ marks = [s \in 1..MaxScans |-> 0]

DispInit == DispInitWith(0)

CurScanId(r) == run[r].scans[run[r].k]
CurScan(r) == scan_results[CurScanId(r)]
CurIdx(r) == run[r].qualifying[run[r].j]
CurVuln(r) == CurScan(r).vulnerabilities[CurIdx(r) + 1]

MayFail == faults < MaxFaults

\* worker/celery_worker.py: the INSERT INTO scan_results of run_security_scan,
\* of a scan that found one of lists, while the table holds fewer than limit rows.
InsertScanResult(limit, lists) ==
    /\ Len(scan_results) < limit
    /\ \E vulns \in lists : scan_results' = Append(scan_results, ScanRow(vulns))
    /\ handled' = {}
    /\ UNCHANGED <<jira_issues, jira_processed_scans, tracker, run, faults, triggers,
                   marks, scanVars, hookVars, toolVars>>

\* An entry of the vulnerabilities array that is a JSON string, not an object.
StringEntry(s) == [json_string |-> s]

IsDict(vuln) == "json_string" \notin DOMAIN vuln

\* severity_filter.py line 16-18: past the severity test, vuln.get on an entry
\* that is not a dict raises AttributeError, and the filter with it.
FilterRaises(vulnerabilities, scan_severity) ==
    /\ scan_severity \in QUALIFYING_SEVERITIES
    /\ \E n \in DOMAIN vulnerabilities : ~IsDict(vulnerabilities[n])

\* A row of scan_results that run_security_scan did not write: High, its
\* vulnerabilities array holding a string.
ForeignRows ==
    { [repo_name |-> RepoName, auth_integrity_score |-> 50, severity |-> "High",
       vulnerabilities |-> << StringEntry("BOLA on /api/orders/{id}") >>] }

\* The INSERT of such a row by another writer of the shared table.
InsertForeignRow(limit) ==
    /\ Len(scan_results) < limit
    /\ \E row \in ForeignRows : scan_results' = Append(scan_results, row)
    /\ handled' = {}
    /\ UNCHANGED <<jira_issues, jira_processed_scans, tracker, run, faults, triggers,
                   marks, scanVars, hookVars, toolVars>>

\* lines 59-66: the loop reaches scans[k]: read the row, filter its vulnerabilities.
\* Nothing catches what the filter raises: process_new_findings ends with it.
AtScan(old, scans, k) ==
    LET row == scan_results[scans[k]]
        qualifying == filter_qualifying_vulnerabilities(row.vulnerabilities, row.severity)
    IN  IF FilterRaises(row.vulnerabilities, row.severity)
        THEN [IdleRun EXCEPT !.pc = "raised"]
        ELSE [old EXCEPT !.scans = scans, !.k = k, !.qualifying = qualifying, !.j = 1,
                         !.existing_key = {},
                         !.pc = IF qualifying = << >> THEN "mark" ELSE "lookup"]

\* The exception leaves process_new_findings: celery records the task as failed
\* and the worker slot is free for the next tick.
TaskRaises(r) ==
    /\ run[r].pc = "raised"
    /\ run' = [run EXCEPT ![r] = IdleRun]
    /\ UNCHANGED <<scan_results, jira_issues, jira_processed_scans, tracker, handled,
                   faults, triggers, marks, scanVars, hookVars, toolVars>>

\* process_new_findings, lines 50-57: fetch; nothing fetched returns the zero result.
StartTick(r) ==
    /\ run[r].pc = "idle"
    /\ \/ /\ LET rows == get_unprocessed_scan_results
             IN  run' = IF rows = << >> THEN run
                        ELSE [run EXCEPT ![r] = AtScan(IdleRun, rows, 1)]
          /\ faults' = faults
       \/ \* the fetch fails: the query error is logged and [] returned (the zero
          \* result), or get_db_connection raises and the task ends
          /\ MayFail
          /\ faults' = faults + 1
          /\ run' = run
    /\ UNCHANGED <<scan_results, jira_issues, jira_processed_scans, tracker, handled,
                   marks, scanVars, hookVars, toolVars>>

\* The periodic beat task (celery beat_schedule, every POLLING_INTERVAL_SECONDS).
BeatTick(r) ==
    /\ StartTick(r)
    /\ triggers' = triggers

\* notification_worker.trigger_processing, queued by POST /api/jira/trigger.
trigger_processing(r) ==
    /\ triggers < MaxTriggers
    /\ triggers' = triggers + 1
    /\ StartTick(r)

\* lines 69-71 and duplicate_checker.find_existing_issue.
Lookup(r) ==
    /\ run[r].pc = "lookup"
    /\ LET rows == OpenRows(CurScan(r).repo_name, CurVuln(r).path,
                            CurVuln(r).vulnerability_type)
       IN  \/ \* the query runs: LIMIT 1 of the matching Open rows
              /\ \/ /\ rows = {}
                    /\ run' = [run EXCEPT ![r].existing_key = {}, ![r].pc = "act"]
                 \/ \E i \in rows :
                       run' = [run EXCEPT ![r].existing_key = {jira_issues[i].jira_issue_key},
                                          ![r].pc = "act"]
              /\ faults' = faults
           \/ \* the query raises: logged, find_existing_issue returns None
              /\ MayFail
              /\ faults' = faults + 1
              /\ run' = [run EXCEPT ![r].existing_key = {}, ![r].pc = "act"]
           \/ \* get_db_connection raises before the try block: nothing catches it,
              \* process_new_findings ends with the exception
              /\ MayFail
              /\ faults' = faults + 1
              /\ run' = [run EXCEPT ![r] = IdleRun]
    /\ UNCHANGED <<scan_results, jira_issues, jira_processed_scans, tracker, handled,
                   triggers, marks, scanVars, hookVars, toolVars>>

\* The loop variable moves to the next qualifying vulnerability, or to line 99.
AfterVuln(r, created, comments) ==
    run' = [run EXCEPT ![r].total_created = @ + created,
                       ![r].total_comments = @ + comments,
                       ![r].existing_key = {},
                       ![r].j = @ + 1,
                       ![r].pc = IF run[r].j + 1 > Len(run[r].qualifying)
                                 THEN "mark" ELSE "lookup"]

NewIssueRow(r, issue_key) ==
    [scan_result_id |-> CurScanId(r), finding_index |-> CurIdx(r),
     repo_name |-> CurScan(r).repo_name,
     vulnerability_type |-> CurVuln(r).vulnerability_type,
     endpoint_or_file |-> CurVuln(r).path, jira_issue_key |-> issue_key,
     jira_status |-> "Open", severity |-> CurScan(r).severity]

\* lines 73-84: add_comment on the existing ticket; a failure is logged.
Comment(r) ==
    /\ run[r].pc = "act"
    /\ run[r].existing_key # {}
    /\ \/ /\ \E key \in run[r].existing_key :
                tracker' = [tracker EXCEPT ![key].comments =
                               Append(@, [scan_id |-> CurScanId(r),
                                          confidence |-> CurVuln(r).confidence])]
          /\ AfterVuln(r, 0, 1)
          /\ faults' = faults
       \/ /\ MayFail
          /\ faults' = faults + 1
          /\ tracker' = tracker
          /\ AfterVuln(r, 0, 0)
    /\ UNCHANGED <<scan_results, jira_issues, jira_processed_scans, handled, triggers,
                   marks, scanVars, hookVars, toolVars>>

\* lines 85-97: create_jira_issue, then save_jira_issue, then total_created += 1.
\* save_jira_issue catches its own failure, so the count still goes up.
Create(r) ==
    /\ run[r].pc = "act"
    /\ run[r].existing_key = {}
    /\ LET issue_key == Len(tracker) + 1
           ticket == [summary |-> <<CurScan(r).severity, CurVuln(r).vulnerability_type,
                                    CurScan(r).repo_name>>,
                      comments |-> << >>]
       IN  \/ /\ tracker' = Append(tracker, ticket)
              /\ jira_issues' = Append(jira_issues, NewIssueRow(r, issue_key))
              /\ AfterVuln(r, 1, 0)
              /\ faults' = faults
           \/ \* the INSERT fails inside save_jira_issue: rolled back and logged
              /\ MayFail
              /\ faults' = faults + 1
              /\ tracker' = Append(tracker, ticket)
              /\ jira_issues' = jira_issues
              /\ AfterVuln(r, 1, 0)
           \/ \* create_jira_issue raises after its retries: logged
              /\ MayFail
              /\ faults' = faults + 1
              /\ UNCHANGED <<tracker, jira_issues>>
              /\ AfterVuln(r, 0, 0)
    /\ UNCHANGED <<scan_results, jira_processed_scans, handled, triggers, marks,
                   scanVars, hookVars, toolVars>>

\* After line 99: the next scan, or lines 101-103 return the result.
AfterScan(r) ==
    IF run[r].k + 1 > Len(run[r].scans)
    THEN /\ run' = [run EXCEPT ![r] = IdleRun]
         /\ handled' = handled \cup {run[r].scans[i] : i \in DOMAIN run[r].scans}
    ELSE /\ run' = [run EXCEPT ![r] = AtScan(run[r], run[r].scans, run[r].k + 1)]
         /\ handled' = handled

\* line 99 and db.mark_scan_processed.
Mark(r) ==
    /\ run[r].pc = "mark"
    /\ \/ /\ jira_processed_scans' = InsertProcessed(jira_processed_scans, CurScanId(r))
          /\ marks' = [marks EXCEPT ![CurScanId(r)] = @ + 1]
          /\ faults' = faults
          /\ AfterScan(r)
       \/ \* the INSERT raises: rolled back and logged, the loop goes on
          /\ MayFail
          /\ faults' = faults + 1
          /\ UNCHANGED <<jira_processed_scans, marks>>
          /\ AfterScan(r)
       \/ \* get_db_connection raises before the try block: the task ends
          /\ MayFail
          /\ faults' = faults + 1
          /\ UNCHANGED <<jira_processed_scans, marks, handled>>
          /\ run' = [run EXCEPT ![r] = IdleRun]
    /\ UNCHANGED <<scan_results, jira_issues, tracker, triggers, scanVars, hookVars, toolVars>>

\* ---------------------------------------------------------------- consensus engine
\* Python None.
Null == [null |-> TRUE]

\* A reviewer's (or the validator's) JSON object.  reasoning is a sequence of text
\* pieces, so that a prefix the engine puts in front stays visible.
Opinion(h, t, c, r) ==
    [has_vulnerability |-> h, vulnerability_type |-> t, confidence |-> c, reasoning |-> r]

\* The literal no-vulnerability dict the engine builds in several places.
CleanResult(reasoning) == Opinion(FALSE, "None", 0, <<reasoning>>)

\* What generate_completion does: it raises (HTTP error, timeout), or returns
\* text; json is the first JSON object of the text, Null when the text has none
\* or it does not parse.
Raises == [raises |-> TRUE, json |-> Null]
Text(json) == [raises |-> FALSE, json |-> json]

\* consensus_engine._parse_json
parse_json(text) ==
    IF text.json = Null THEN CleanResult("Parse error") ELSE text.json

\* consensus_engine._call_model
call_model(response) ==
    IF response.raises THEN Null ELSE parse_json(response)

\* Truth value of a result: None is false, a dict with keys is true.
Truthy(r) == r # Null

EngineResult(status, result) == [status |-> status, result |-> result]

\* The mean without the agreement bonus.
MergedConfMean(m_conf, q_conf) == (m_conf + q_conf) \div 2

\* int((m_conf + q_conf) / 2 * 1.15) in binary floating point: 23 * sum / 40
\* truncated, except that 100.0 * 1.15 is 114.99999999999999.
MergedConf(m_conf, q_conf) ==
    IF m_conf + q_conf = 200 THEN 114 ELSE PyIntDiv(23 * (m_conf + q_conf), 40)

\* No disagreement penalty.
PenalisedConfNone(confidence) == confidence

\* int(confidence * 0.85)
PenalisedConf(confidence) == PyIntDiv(17 * confidence, 20)

\* analyze_endpoint line 131
GeminiWins(gemini_result) ==
    gemini_result # Null /\ gemini_result.confidence > 0

\* analyze_endpoint lines 141-145: only one model responded.
SingleModel(r) ==
    IF r.has_vulnerability /\ r.confidence > 70
    THEN EngineResult("fallback_mistral", r)
    ELSE EngineResult("clean",
                      CleanResult("Single model, confidence too low to flag"))

\* The split vote with the single-model threshold.
SplitVoteAbove70(vuln_result) ==
    IF vuln_result.confidence > 70
    THEN EngineResult("judged",
             [vuln_result EXCEPT !.reasoning = <<"[Split vote - high confidence]">> \o @])
    ELSE EngineResult("clean", CleanResult(
             "Split vote: single model did not reach confidence threshold"))

\* analyze_endpoint lines 181-189: one model flags, the other says clean.
SplitVote(vuln_result) ==
    IF vuln_result.confidence > 75
    THEN EngineResult("judged",
             [vuln_result EXCEPT !.reasoning = <<"[Split vote - high confidence]">> \o @])
    ELSE EngineResult("clean", CleanResult(
             "Split vote: single model did not reach confidence threshold"))

\* analyze_endpoint lines 147-189: both models responded.
SmartMerge(m, q) ==
    LET m_vuln == m.has_vulnerability
        q_vuln == q.has_vulnerability
        m_type == m.vulnerability_type
        q_type == q.vulnerability_type
        m_conf == m.confidence
        q_conf == q.confidence
    IN  IF ~m_vuln /\ ~q_vuln
        THEN EngineResult("clean", CleanResult("Both models agree: no vulnerability"))
        ELSE IF m_vuln /\ q_vuln /\ m_type = q_type
        THEN LET merged_conf == Min(100, MergedConf(m_conf, q_conf))
                 best_reasoning == IF m_conf >= q_conf THEN m.reasoning ELSE q.reasoning
             IN  EngineResult("consensus",
                              Opinion(TRUE, m_type, merged_conf,
                                      <<"[Consensus]">> \o best_reasoning))
        ELSE IF m_vuln /\ q_vuln
        THEN LET best == IF m_conf >= q_conf THEN m ELSE q
                 penalised_conf == PenalisedConf(best.confidence)
             IN  IF penalised_conf > 60
                 THEN EngineResult("judged",
                          [best EXCEPT !.confidence = penalised_conf,
                                       !.reasoning =
                                           <<"[Disagreement: models differ on type]">> \o @])
                 ELSE EngineResult("clean", CleanResult(
                          "Models disagreed on type and penalised confidence too low to flag"))
        ELSE SplitVote(IF m_vuln THEN m ELSE q)

\* analyze_endpoint, step 3 to the end: the verdict from the three results.
Decide(mistral_result, qwen_result, gemini_result) ==
    LET results == SelectSeq(<<mistral_result, qwen_result>>, Truthy)
    IN  IF GeminiWins(gemini_result)
        THEN EngineResult("gemini_validated", gemini_result)
        ELSE IF results = << >>
        THEN EngineResult("all_failed", CleanResult("All models unavailable"))
        ELSE IF Len(results) = 1
        THEN SingleModel(results[1])
        ELSE SmartMerge(mistral_result, qwen_result)

\* ---------------------------------------------------------------- scan orchestrator
NumItems == 6
MaxVulns == 5
SEM_PERMITS == 5

VulnKinds == {"BOLA", "IDOR", "Privilege Escalation", "Missing Authentication",
              "Missing Role Guard", "Inconsistent Middleware"}

\* Confidences around every threshold of the engine and of the collect loop.
EngineConfs == {0, 1, 40, 51, 70, 71, 72, 75, 76, 80, 90, 100}
ValidatorConfs == {0, 1, 50, 51, 80}

EngineOpinions(who) ==
    { Opinion(h, t, c, <<who>>) :
        h \in BOOLEAN, t \in {"BOLA", "IDOR", "None"}, c \in EngineConfs }

\* What a reviewer can answer in the engine specification.
EngineResponses(who) == {Raises, Text(Null)} \cup {Text(o) : o \in EngineOpinions(who)}

\* What GeminiClient.validate can do: return text, or find every model gone and
\* switch itself off (exhausted), returning "".
GeminiOutcomes ==
    { [exhausted |-> FALSE, text |-> Text(Opinion(h, t, c, <<"gemini">>))] :
        h \in BOOLEAN, t \in {"BOLA", "None"}, c \in ValidatorConfs }
    \cup { [exhausted |-> e, text |-> Text(Null)] : e \in BOOLEAN }

\* The narrow answers of the fan-out specification.
FanoutResponses(who) == {Text(Opinion(TRUE, "BOLA", 80, <<who>>))}

FanoutOutcomes ==
    { [exhausted |-> FALSE, text |-> Text(Opinion(TRUE, "BOLA", 80, <<"gemini">>))],
      [exhausted |-> TRUE, text |-> Text(Null)] }

\* endpoint.get("code", "") of the items handed to the engine.
ItemCodes == {"", "def get_order(order_id): ..."}

\* The answers of the attribution specification: they give the items of a
\* scan different verdicts.
AttrItems == 2

AttrResponses(who) ==
    IF who = "mistral"
    THEN {Text(Opinion(TRUE, "BOLA", 80, <<who>>)), Text(Opinion(TRUE, "IDOR", 90, <<who>>))}
    ELSE {Text(Opinion(TRUE, "BOLA", 70, <<who>>)), Raises}

AttrOutcomes == FanoutOutcomes \cup {[exhausted |-> FALSE, text |-> Text(Null)]}

PendingTask ==
    [pc |-> "pending", mistral_call |-> "none", qwen_call |-> "none",
     mistral_result |-> Null, qwen_result |-> Null, gemini_result |-> Null,
     res |-> Null, code |-> "def get_order(order_id): ..."]

IdleScan == [pc |-> "idle", ai_results |-> << >>, final_vulns |-> << >>,
             score_data |-> Null, result |-> Null]

ScanInit ==
    /\ scan = IdleScan
    /\ task = << >>
    /\ SEM = SEM_PERMITS
    /\ gemini_available = TRUE

\* The path final_vulns records for relevant_items[i].
ItemPath(i) == <<"/api/items", i>>

\* run_security_scan lines 147-166: n items are security-relevant.  None: the
\* score is 100, Low.  Some: one analyze_with_semaphore task per item is created
\* behind a fresh Semaphore(5).
BeginScan(n) ==
    /\ scan.pc = "idle"
    /\ IF n = 0
       THEN /\ scan' = [scan EXCEPT !.pc = "persist",
                                    !.score_data = [score |-> 100, severity |-> "Low"],
                                    !.final_vulns = << >>]
            /\ UNCHANGED <<task, SEM>>
       ELSE /\ scan' = [scan EXCEPT !.pc = "fanout"]
            /\ task' = [i \in 1..n |-> PendingTask]
            /\ SEM' = SEM_PERMITS
    /\ UNCHANGED <<gemini_available, dispVars, hookVars, toolVars>>

\* analyze_endpoint is called for one item whose source text is code.
BeginItem(code) ==
    /\ scan.pc = "idle"
    /\ scan' = [scan EXCEPT !.pc = "fanout"]
    /\ task' = <<[PendingTask EXCEPT !.code = code]>>
    /\ SEM' = SEM_PERMITS
    /\ UNCHANGED <<gemini_available, dispVars, hookVars, toolVars>>

\* async with SEM, then analyze_endpoint lines 110-113: both reviewer requests
\* are sent.  The tasks reach the semaphore in the order gather created them and
\* its waiters are woken first come, first served.
Acquire(i) ==
    /\ scan.pc = "fanout"
    /\ task[i].pc = "pending"
    /\ \A j \in 1..(i - 1) : task[j].pc # "pending"
    /\ SEM > 0
    /\ SEM' = SEM - 1
    /\ task' = [task EXCEPT ![i].pc = "reviewers", ![i].mistral_call = "inflight",
                            ![i].qwen_call = "inflight"]
    /\ UNCHANGED <<scan, gemini_available, dispVars, hookVars, toolVars>>

\* The coroutine returns: its verdict is set, the semaphore is released on exit.
Finish(t, gemini_result) ==
    [t EXCEPT !.pc = "done", !.gemini_result = gemini_result,
              !.res = Decide(t.mistral_result, t.qwen_result, gemini_result)]

\* The validator step without the test of gemini_client.available.
AfterReviewersUnchecked(t) ==
    IF t.mistral_call = "done" /\ t.qwen_call = "done"
    THEN IF Truthy(t.mistral_result) \/ Truthy(t.qwen_result)
         THEN [t EXCEPT !.pc = "validator"]
         ELSE Finish(t, Null)
    ELSE t

\* analyze_endpoint lines 113-117: once gather has both results, the validator is
\* asked if it is available and a reviewer answered; else the decision is taken.
AfterReviewers(t) ==
    IF t.mistral_call = "done" /\ t.qwen_call = "done"
    THEN IF gemini_available /\ (Truthy(t.mistral_result) \/ Truthy(t.qwen_result))
         THEN [t EXCEPT !.pc = "validator"]
         ELSE Finish(t, Null)
    ELSE t

Resume(i, t) ==
    /\ task' = [task EXCEPT ![i] = t]
    /\ SEM' = IF t.pc = "done" THEN SEM + 1 ELSE SEM

MistralReturns(i, response) ==
    /\ task[i].mistral_call = "inflight"
    /\ Resume(i, AfterReviewers([task[i] EXCEPT !.mistral_call = "done",
                                                !.mistral_result = call_model(response)]))
    /\ UNCHANGED <<scan, gemini_available, dispVars, hookVars, toolVars>>

QwenReturns(i, response) ==
    /\ task[i].qwen_call = "inflight"
    /\ Resume(i, AfterReviewers([task[i] EXCEPT !.qwen_call = "done",
                                                !.qwen_result = call_model(response)]))
    /\ UNCHANGED <<scan, gemini_available, dispVars, hookVars, toolVars>>

\* analyze_endpoint lines 118-128 and GeminiClient.validate, then the decision.
Validate(i, outcome) ==
    /\ task[i].pc = "validator"
    /\ gemini_available' = (gemini_available /\ ~outcome.exhausted)
    /\ Resume(i, Finish(task[i], parse_json(outcome.text)))
    /\ UNCHANGED <<scan, dispVars, hookVars, toolVars>>

\* What gather(return_exceptions=True) puts in place of a task that raised.
ExceptionResult == [exception |-> TRUE]

\* analyze_endpoint raises once its last awaited answer is in (a confidence that
\* is not a number makes a comparison of lines 131-187 raise TypeError); the
\* semaphore is released on the way out and gather keeps the exception.
AnalysisRaises(i) ==
    /\ scan.pc = "fanout"
    /\ \/ task[i].pc = "validator"
       \/ /\ task[i].pc = "reviewers"
          /\ (task[i].mistral_call = "done") # (task[i].qwen_call = "done")
    /\ task' = [task EXCEPT ![i].pc = "done", ![i].mistral_call = "done",
                            ![i].qwen_call = "done", ![i].res = ExceptionResult]
    /\ SEM' = SEM + 1
    /\ UNCHANGED <<scan, gemini_available, dispVars, hookVars, toolVars>>

\* run_all returns: gather lists the results in the order of the tasks.
Gather ==
    /\ scan.pc = "fanout"
    /\ \A i \in DOMAIN task : task[i].pc = "done"
    /\ scan' = [scan EXCEPT !.pc = "collect",
                            !.ai_results = [i \in DOMAIN task |-> task[i].res]]
    /\ UNCHANGED <<task, SEM, gemini_available, dispVars, hookVars, toolVars>>

POSITIVE_STATUSES == {"consensus", "gemini_validated", "judged", "fallback_mistral"}

\* lines 172-176: does the collect loop keep ai_results[i]?
IsConfirmed(res) ==
    /\ res # ExceptionResult
    /\ res.status \in POSITIVE_STATUSES
    /\ res.result.has_vulnerability
    /\ res.result.confidence > 55

\* The loop pairing a kept result with the next item not yet paired.
CollectVulnsByArrival(ai_results) ==
    LET f[n \in 0..Len(ai_results)] ==
            IF n = 0 THEN << >>
            ELSE IF IsConfirmed(ai_results[n])
                 THEN Append(f[n - 1],
                             [path |-> ItemPath(Len(f[n - 1]) + 1),
                              vulnerability_type |-> ai_results[n].result.vulnerability_type,
                              confidence |-> ai_results[n].result.confidence,
                              validated_by |-> ai_results[n].status])
                 ELSE f[n - 1]
    IN  f[Len(ai_results)]

\* lines 169-187: final_vulns, in the order of the items.
CollectVulns(ai_results) ==
    LET f[n \in 0..Len(ai_results)] ==
            IF n = 0 THEN << >>
            ELSE IF IsConfirmed(ai_results[n])
                 THEN Append(f[n - 1],
                             [path |-> ItemPath(n),
                              vulnerability_type |-> ai_results[n].result.vulnerability_type,
                              confidence |-> ai_results[n].result.confidence,
                              validated_by |-> ai_results[n].status])
                 ELSE f[n - 1]
    IN  f[Len(ai_results)]

Collect ==
    /\ scan.pc = "collect"
    /\ LET final_vulns == CollectVulns(scan.ai_results)
       IN  scan' = [scan EXCEPT !.pc = "persist", !.final_vulns = final_vulns,
                                !.score_data = calculate_score(final_vulns)]
    /\ UNCHANGED <<task, SEM, gemini_available, dispVars, hookVars, toolVars>>

\* lines 75-100: the archive cannot be downloaded or is not a zip file.
DownloadFails ==
    /\ scan.pc = "idle"
    /\ scan' = [scan EXCEPT !.pc = "returned", !.result = [status |-> "error"]]
    /\ UNCHANGED <<task, SEM, gemini_available, dispVars, hookVars, toolVars>>

\* lines 192-208: the INSERT INTO scan_results; a failure is logged and the task
\* still returns success.
Persist ==
    /\ scan.pc = "persist"
    /\ scan' = [scan EXCEPT !.pc = "returned",
                            !.result = [status |-> "success",
                                        score |-> scan.score_data.score,
                                        vulnerabilities_found |-> Len(scan.final_vulns)]]
    /\ \/ /\ scan_results' = Append(scan_results,
                                    [repo_name |-> RepoName,
                                     auth_integrity_score |-> scan.score_data.score,
                                     severity |-> scan.score_data.severity,
                                     vulnerabilities |-> scan.final_vulns])
          /\ handled' = {}
       \/ UNCHANGED <<scan_results, handled>>
    /\ UNCHANGED <<jira_issues, jira_processed_scans, tracker, run, faults, triggers,
                   marks, task, SEM, gemini_available, hookVars, toolVars>>

\* Reviewer answers the scoring specification combines: a lone reviewer flagging
\* each kind at 100, the two agreeing on BOLA (80 and 70, 40 and 40), a clean one.
ScoreInputs ==
    { <<Text(Opinion(TRUE, t, 100, <<"mistral">>)), Raises>> :
        t \in VulnKinds \cup {"SQL Injection"} }
    \cup { <<Text(Opinion(TRUE, "BOLA", 80, <<"mistral">>)),
             Text(Opinion(TRUE, "BOLA", 70, <<"qwen">>))>>,
           <<Text(Opinion(TRUE, "BOLA", 40, <<"mistral">>)),
             Text(Opinion(TRUE, "BOLA", 40, <<"qwen">>))>> }

\* The verdicts analyze_endpoint gives on them without the validator.
ScoreVerdicts ==
    { Decide(call_model(pair[1]), call_model(pair[2]), Null) : pair \in ScoreInputs }

SeqsUpTo(S, n) == UNION { [1..k -> S] : k \in 1..n }

\* run_all as one step: the tasks of a scan with 1..MaxVulns relevant items have
\* all returned, with results out of outcomes.
run_all(outcomes) ==
    /\ scan.pc = "idle"
    /\ \E results \in SeqsUpTo(outcomes, MaxVulns) :
           scan' = [scan EXCEPT !.pc = "collect", !.ai_results = results]
    /\ UNCHANGED <<task, SEM, gemini_available, dispVars, hookVars, toolVars>>

\* ---------------------------------------------------------------- GitHub webhook
MaxRequests == 2

GITHUB_WEBHOOK_SECRET == "super-secret"

\* hmac.new(key, msg, sha256).hexdigest(): a digest is equal to another only when
\* key and message are.
HmacSha256(key, msg) == <<"hmac-sha256", key, msg>>

\* The header value "sha256=" + hexdigest.
SignatureHeader(key, msg) == <<"sha256=", HmacSha256(key, msg)>>

NoHeader == <<>>

WebhookBodies ==
    { [pull_request |-> TRUE, action |-> a] :
        a \in {"opened", "synchronize", "reopened", "closed"} }
    \cup { [pull_request |-> FALSE, action |-> a] : a \in {"opened", "created"} }

\* Headers a sender can put on a body: none, the signature under the shared
\* secret, a signature under another key, the valid signature of another body.
WebhookHeaders(body) ==
    { NoHeader, SignatureHeader(GITHUB_WEBHOOK_SECRET, body),
      SignatureHeader("guessed-secret", body),
      SignatureHeader(GITHUB_WEBHOOK_SECRET, [pull_request |-> FALSE, action |-> "created"]) }

\* github.verify_signature
verify_signature(payload_body, signature_header) ==
    IF signature_header = NoHeader THEN FALSE
    ELSE SignatureHeader(GITHUB_WEBHOOK_SECRET, payload_body) = signature_header

\* github.github_webhook: the response for a request.  An invalid signature is
\* only printed ("Invalid signature, but continuing for local dev.").
WebhookResponse(payload_body, x_hub_signature_256) ==
    LET printed == IF verify_signature(payload_body, x_hub_signature_256)
                   THEN << >>
                   ELSE <<"Invalid signature, but continuing for local dev.">>
    IN  IF payload_body.pull_request
           /\ payload_body.action \in {"opened", "synchronize", "reopened"}
        THEN [status |-> "success", message |-> "Scan triggered", printed |-> printed]
        ELSE [status |-> "ignored", message |-> "Event ignored.", printed |-> printed]

HookInit == webhook_log = << >>

github_webhook(payload_body, x_hub_signature_256) ==
    /\ Len(webhook_log) < MaxRequests
    /\ webhook_log' = Append(webhook_log,
                             [body |-> payload_body, signature |-> x_hub_signature_256,
                              response |-> WebhookResponse(payload_body,
                                                           x_hub_signature_256)])
    /\ UNCHANGED <<dispVars, scanVars, toolVars>>

\* ---------------------------------------------------------------- AST parser
MaxFuncs == 2
MaxParses == 2

\* str.lower / str.upper on the attribute names of the model.
lower(s) ==
    CASE s = "GET" -> "get" [] s = "POST" -> "post" [] s = "Delete" -> "delete"
      [] OTHER -> s

upper(s) ==
    CASE s = "get" -> "GET" [] s = "post" -> "POST" [] s = "put" -> "PUT"
      [] s = "delete" -> "DELETE" [] s = "patch" -> "PATCH"
      [] s = "options" -> "OPTIONS" [] s = "head" -> "HEAD" [] OTHER -> s

http_methods == {"get", "post", "put", "delete", "patch", "options", "head"}

\* ast nodes.  Constant(v): a literal; Name(id): an identifier;
\* Attribute(value, attr): value.attr; Call(func, args): func(*args).
Constant(v) == [node |-> "Constant", value |-> v]
Name(id) == [node |-> "Name", id |-> id]
Attribute(value, attr) == [node |-> "Attribute", value |-> value, attr |-> attr]
Call(func, args) == [node |-> "Call", func |-> func, args |-> args]

\* @<caller>.<attr>(<args>)
Route(caller, attr, args) == Call(Attribute(Name(caller), attr), args)

\* The decorator lists of the def nodes of the model.
DecoratorLists ==
    { << >>,
      <<Name("login_required")>>,
      <<Route("app", "get", <<Constant("/users/me")>>)>>,
      <<Route("router", "POST", <<Constant("/items")>>)>>,
      <<Route("router", "get", <<Constant("")>>)>>,
      <<Route("app", "get", <<Name("USERS_PATH")>>)>>,
      <<Route("limiter", "limit", <<Constant("5/minute")>>)>>,
      <<Route("app", "put", <<Constant("/a")>>), Route("app", "patch", <<Constant("/b")>>)>>,
      <<Route("app", "Delete", <<Constant("/b")>>), Route("app", "get", <<Name("B_PATH")>>)>> }

\* The parameter lists: names, defaults of the positional parameters, defaults
\* of the keyword-only ones (None where a keyword-only parameter has none).
Depends(arg) == Call(Name("Depends"), <<arg>>)

ParameterLists ==
    { [args |-> << >>, defaults |-> << >>, kw_defaults |-> << >>],
      [args |-> <<"current_user">>, defaults |-> <<Depends(Name("get_current_user"))>>,
       kw_defaults |-> << >>],
      [args |-> <<"item_id", "limit">>,
       defaults |-> <<Constant(10)>>,
       kw_defaults |-> <<Null, Depends(Name("get_db")),
                         Depends(Attribute(Name("auth"), "verify_admin"))>>] }

\* The def nodes: ast.FunctionDef and ast.AsyncFunctionDef.
FunctionDefs ==
    { [node |-> n, decorator_list |-> d, args |-> p] :
        n \in {"FunctionDef", "AsyncFunctionDef"}, d \in DecoratorLists,
        p \in ParameterLists }

\* _check_endpoint lines 23-35: method and path after the loop over the
\* decorators; each is None or what the last matching decorator assigned.
RECURSIVE ScanDecorators(_, _, _)
ScanDecorators(decorator_list, k, mp) ==
    IF k > Len(decorator_list) THEN mp
    ELSE LET decorator == decorator_list[k]
             hit == /\ decorator.node = "Call"
                    /\ decorator.func.node = "Attribute"
                    /\ lower(decorator.func.attr) \in http_methods
             m == IF hit THEN [value |-> upper(lower(decorator.func.attr))] ELSE mp.method
             p == IF hit /\ Len(decorator.args) > 0 /\ decorator.args[1].node = "Constant"
                  THEN [value |-> decorator.args[1].value]
                  ELSE mp.path
         IN  ScanDecorators(decorator_list, k + 1, [method |-> m, path |-> p])

\* bool(x) of a str-or-None local.
StrTruthy(x) == x # Null /\ x.value # ""

\* _check_endpoint lines 50-62: the guards of a list of default expressions.
RECURSIVE GuardsOf(_, _)
GuardsOf(ds, k) ==
    IF k > Len(ds) THEN << >>
    ELSE LET d == ds[k]
             isDepends == /\ d # Null
                          /\ d.node = "Call"
                          /\ d.func.node = "Name"
                          /\ d.func.id = "Depends"
                          /\ Len(d.args) > 0
                          /\ d.args[1].node = "Name"
         IN  (IF isDepends THEN <<d.args[1].id>> ELSE << >>) \o GuardsOf(ds, k + 1)

\* _check_endpoint: the records a def node appends to self.endpoints.
\* function_name and code identify the node.
check_endpoint(node, lineno) ==
    LET mp == ScanDecorators(node.decorator_list, 1, [method |-> Null, path |-> Null])
    IN  IF StrTruthy(mp.method) /\ StrTruthy(mp.path)
        THEN << [function_name |-> <<"f", lineno>>,
                 method |-> mp.method.value,
                 path |-> mp.path.value,
                 guards |-> GuardsOf(node.args.defaults, 1)
                            \o GuardsOf(node.args.kw_defaults, 1),
                 arguments |-> node.args.args,
                 code |-> node] >>
        ELSE << >>

\* NodeVisitor.visit over the tree: the def nodes are visited in source order.
RECURSIVE visit(_, _)
visit(tree, k) ==
    IF k > Len(tree) THEN << >>
    ELSE check_endpoint(tree[k], k) \o visit(tree, k + 1)

parse_fastapi_code(src) == visit(src, 1)

ParseInit ==
    /\ source_code = << >>
    /\ parsed = << >>

\* The file under analysis gets one more function.
WriteFunction(f) ==
    /\ parsed = << >>
    /\ Len(source_code) < MaxFuncs
    /\ source_code' = Append(source_code, f)
    /\ UNCHANGED <<parsed, dispVars, scanVars, hookVars, redVars, moreVars>>

\* parse_fastapi_code(source_code) is called (a fresh visitor each time).
ParseCall ==
    /\ Len(parsed) < MaxParses
    /\ parsed' = Append(parsed, parse_fastapi_code(source_code))
    /\ UNCHANGED <<source_code, dispVars, scanVars, hookVars, redVars, moreVars>>


\* ---------------------------------------------------------------- red-team simulator
MaxBackendVulns == 2

\* model=None.
None == "<None>"

\* Both models with Mistral's tags.
MODEL_TAGS_Same ==
    [mistral |-> {"fallback_mistral", "consensus", "judged", "gemini_validated"},
     qwen |-> {"fallback_mistral", "consensus", "judged", "gemini_validated"}]

MODEL_TAGS ==
    [mistral |-> {"fallback_mistral", "consensus", "judged", "gemini_validated"},
     qwen |-> {"consensus", "judged", "gemini_validated"}]

\* bool(model) of a str-or-None argument.
ModelTruthy(model) == model # None /\ model # ""

\* v.get("validated_by", "")
GetValidatedBy(v) == IF "validated_by" \in DOMAIN v THEN v.validated_by ELSE ""

\* What GET /api/dashboard/vulnerabilities can do: answer 200 with a list,
\* answer another status, or fail in transport.
Response(status_code, json) == [raises |-> FALSE, status_code |-> status_code, json |-> json]
TransportError == [raises |-> TRUE]

\* fetch_vulnerabilities lines 71-89.
fetch_vulnerabilities(model, response) ==
    IF response.raises THEN << >>
    ELSE IF response.status_code = 200
         THEN LET all_vulns == response.json
              IN  IF ModelTruthy(model) /\ model \in DOMAIN MODEL_TAGS
                  THEN SelectSeq(all_vulns, LAMBDA v : GetValidatedBy(v) \in MODEL_TAGS[model])
                  ELSE all_vulns
         ELSE << >>

\* The vulnerabilities the backend lists: with each provenance tag the worker
\* writes, with one it does not, and without the key.
BackendTags == {"fallback_mistral", "consensus", "judged", "gemini_validated", "clean"}

BackendVulns ==
    { [title |-> "BOLA", validated_by |-> t] : t \in BackendTags } \cup { [title |-> "BOLA"] }

BackendResponses ==
    { Response(200, l) : l \in SeqsUpTo(BackendVulns, MaxBackendVulns) }
    \cup { Response(503, << >>), TransportError }

\* The narrower lists of the cycle specification.
CycleVulns == { [title |-> "BOLA", validated_by |-> t] : t \in {"fallback_mistral", "consensus"} }

CycleResponses ==
    { Response(200, l) : l \in SeqsUpTo(CycleVulns, MaxBackendVulns) } \cup { TransportError }

ModelArguments == {None, "qwen", "mistral"}

IdleCycle ==
    [pc |-> "idle", model |-> None, db |-> FALSE, vulns |-> << >>, k |-> 0,
     attack_results |-> << >>, r |-> 0, findings_created |-> 0, summary |-> Null]

RedInit ==
    /\ cycle = IdleCycle
    /\ session = << >>
    /\ findings = << >>
    /\ fetched = Null

\* ---------------------------------------------------------------- extraction walk
MaxFiles == 2

\* The def statements of the walked files: a name, and a route decorator or none.
WalkRoute(method, path) == [method |-> method, path |-> path]

WalkDefs ==
    { [name |-> n, route |-> r] :
        n \in {"get_user", "load_user"}, r \in {Null, WalkRoute("get", "/users/me")} }

WalkFiles == SeqsUpTo(WalkDefs, MaxFuncs)

\* The ast of a file of the walk.
WalkTree(file) ==
    [k \in DOMAIN file |->
        [node |-> "FunctionDef",
         decorator_list |-> IF file[k].route = Null THEN << >>
                            ELSE <<Route("router", file[k].route.method,
                                         <<Constant(file[k].route.path)>>)>>,
         args |-> [args |-> << >>, defaults |-> << >>, kw_defaults |-> << >>]]]

\* parse_fastapi_code on a file of the walk, node.name put for the position.
WalkEndpoints(file) ==
    LET endpoints == parse_fastapi_code(WalkTree(file))
    IN  [k \in DOMAIN endpoints |->
            [function_name |-> file[endpoints[k].function_name[2]].name,
             lineno |-> endpoints[k].function_name[2],
             method |-> endpoints[k].method,
             path |-> endpoints[k].path]]

\* extract_all_functions: every named def is emitted once per
\* (name, first characters of its source), in source order.
extract_all_functions(file, rel_path) ==
    LET f[n \in 0..Len(file)] ==
            IF n = 0 THEN << >>
            ELSE IF \E j \in 1..(n - 1) : file[j] = file[n]
                 THEN f[n - 1]
                 ELSE Append(f[n - 1],
                             [function_name |-> file[n].name, lineno |-> n,
                              method |-> "FUNCTION", path |-> rel_path])
    IN  f[Len(file)]

EndpointKey(ep) == <<ep.method, ep.path>>

FunctionKey(fn, rel_path) == <<"FUNCTION", fn.function_name, rel_path>>

\* celery_worker lines 118-126: the endpoints of a file are all appended.
RECURSIVE AddEndpoints(_, _, _, _)
AddEndpoints(endpoints, k, rel_path, acc) ==
    IF k > Len(endpoints) THEN acc
    ELSE AddEndpoints(endpoints, k + 1, rel_path,
             [keys |-> acc.keys \cup {EndpointKey(endpoints[k])},
              items |-> Append(acc.items,
                               [function_name |-> endpoints[k].function_name,
                                lineno |-> endpoints[k].lineno,
                                method |-> endpoints[k].method,
                                path |-> endpoints[k].path,
                                file_path |-> rel_path, is_endpoint |-> TRUE])])

\* celery_worker lines 130-138: a function is appended unless its key was seen.
RECURSIVE AddFunctions(_, _, _, _)
AddFunctions(funcs, k, rel_path, acc) ==
    IF k > Len(funcs) THEN acc
    ELSE LET key == FunctionKey(funcs[k], rel_path)
         IN  AddFunctions(funcs, k + 1, rel_path,
                 IF key \notin acc.keys
                 THEN [keys |-> acc.keys \cup {key},
                       items |-> Append(acc.items,
                                        [function_name |-> funcs[k].function_name,
                                         lineno |-> funcs[k].lineno,
                                         method |-> "FUNCTION",
                                         path |-> rel_path,
                                         file_path |-> rel_path, is_endpoint |-> FALSE])]
                 ELSE acc)

WalkInit ==
    /\ all_items = << >>
    /\ endpoint_keys = {}
    /\ walked = 0

\* celery_worker lines 104-140: one turn of the loop over the .py files.
WalkFile(file) ==
    /\ walked < MaxFiles
    /\ LET rel_path == <<"app", walked + 1>>
           a == AddEndpoints(WalkEndpoints(file), 1, rel_path,
                             [keys |-> endpoint_keys, items |-> all_items])
           b == AddFunctions(extract_all_functions(file, rel_path), 1, rel_path, a)
       IN  /\ all_items' = b.items
           /\ endpoint_keys' = b.keys
    /\ walked' = walked + 1
    /\ UNCHANGED <<dispVars, scanVars, hookVars, parseVars, redVars, filterVars,
                   retryVars>>

\* ---------------------------------------------------------------- tracker client
\* jira-service/jira_client.py
MAX_RETRIES == 3
RETRY_BACKOFF_BASE == 2

\* The calls the client makes through _retry_request: method and REST resource.
TrackerCalls ==
    { <<"get", "project">>, <<"post", "issue">>, <<"post", "comment">>,
      <<"get", "myself">> }

\* What an attempt can raise: the transport failing, the 10 s timeout, or
\* raise_for_status on a 4xx / 5xx response.
AttemptErrors == {"ConnectError", "ReadTimeout", "HTTPStatusError"}

IdleRequest ==
    [pc |-> "idle", call |-> << >>, attempt |-> 0, last_error |-> None,
     errors |-> << >>, slept |-> << >>]

RetryInit == request = IdleRequest

OtherThanRetry == <<dispVars, scanVars, hookVars, parseVars, redVars, walkVars, filterVars>>

\* line 34-35: last_error = None, the loop starts at attempt 1.
CallTracker ==
    /\ request.pc = "idle"
    /\ \E call \in TrackerCalls :
          request' = [IdleRequest EXCEPT !.pc = "attempt", !.call = call, !.attempt = 1]
    /\ UNCHANGED OtherThanRetry

\* lines 37-44: the request is answered below 400: return response.
AttemptSucceeds ==
    /\ request.pc = "attempt"
    /\ request' = [request EXCEPT !.pc = "returned"]
    /\ UNCHANGED OtherThanRetry

\* The loop's next iteration, or lines 51-52 after the last: raise last_error.
NextAttempt(req) ==
    IF req.attempt + 1 <= MAX_RETRIES
    THEN [req EXCEPT !.pc = "attempt", !.attempt = @ + 1]
    ELSE [req EXCEPT !.pc = "raised"]

\* The handler sleeping after every failed attempt, the last included.
AfterFailureAlwaysSleeping(req) ==
    [req EXCEPT !.pc = "sleep", !.slept = Append(@, RETRY_BACKOFF_BASE ^ req.attempt)]

\* lines 47-50: if attempt < MAX_RETRIES: time.sleep(RETRY_BACKOFF_BASE ** attempt).
AfterFailure(req) ==
    IF req.attempt < MAX_RETRIES
    THEN [req EXCEPT !.pc = "sleep", !.slept = Append(@, RETRY_BACKOFF_BASE ^ req.attempt)]
    ELSE NextAttempt(req)

\* lines 45-46: the attempt raises e: last_error = e.
AttemptFails ==
    /\ request.pc = "attempt"
    /\ \E e \in AttemptErrors :
          request' = AfterFailure([request EXCEPT !.last_error = e,
                                                  !.errors = Append(@, e)])
    /\ UNCHANGED OtherThanRetry

\* time.sleep returns.
Wake ==
    /\ request.pc = "sleep"
    /\ request' = NextAttempt(request)
    /\ UNCHANGED OtherThanRetry

\* ---------------------------------------------------------------- severity filter on JSON
MaxFiltered == 2

\* The JSON values a "confidence" key can hold.
JsonInt(n) == [type |-> "int", value |-> n]
JsonStr(s) == [type |-> "str", text |-> s]
JsonNull == [type |-> "null"]

\* int(s) on the strings of the model; ValueError for the others.
ValueError == [type |-> "ValueError"]

int(s) ==
    CASE s = "54" -> JsonInt(54) [] s = "55" -> JsonInt(55) [] s = "90" -> JsonInt(90)
      [] OTHER -> ValueError

\* Coercion of every value that is no integer to 0.
CoerceConfidenceOrZero(confidence) ==
    IF confidence.type = "str"
    THEN IF int(confidence.text).type = "ValueError" THEN JsonInt(0)
         ELSE int(confidence.text)
    ELSE IF confidence.type = "int" THEN confidence ELSE JsonInt(0)

\* severity_filter lines 18-23: the value compared with the threshold.
CoerceConfidence(confidence) ==
    IF confidence.type = "str"
    THEN IF int(confidence.text).type = "ValueError" THEN JsonInt(0)
         ELSE int(confidence.text)
    ELSE confidence

\* is_qualifying_vulnerability on a JSON entry: "True", "False", or the
\* TypeError of line 24 comparing a value that is no number with 55.
is_qualifying_json(vuln, scan_severity) ==
    IF scan_severity \notin QUALIFYING_SEVERITIES THEN "False"
    ELSE LET confidence == CoerceConfidence(vuln.confidence)
         IN  IF confidence.type # "int" THEN "TypeError"
             ELSE IF is_qualifying_vulnerability(
                         [path |-> vuln.path,
                          vulnerability_type |-> vuln.vulnerability_type,
                          confidence |-> confidence.value], scan_severity)
                  THEN "True" ELSE "False"

\* filter_qualifying_vulnerabilities on JSON entries: the (index, vuln) pairs,
\* unless an entry raises.
filter_qualifying_json(vulnerabilities, scan_severity) ==
    LET f[n \in 0..Len(vulnerabilities)] ==
            IF n = 0 THEN [raises |-> FALSE, qualifying |-> << >>]
            ELSE IF f[n - 1].raises THEN f[n - 1]
            ELSE LET q == is_qualifying_json(vulnerabilities[n], scan_severity)
                 IN  IF q = "TypeError" THEN [raises |-> TRUE, qualifying |-> << >>]
                     ELSE IF q = "True"
                     THEN [f[n - 1] EXCEPT
                              !.qualifying = Append(@, <<n - 1, vulnerabilities[n]>>)]
                     ELSE f[n - 1]
    IN  f[Len(vulnerabilities)]

JsonConfidences ==
    { JsonInt(54), JsonInt(55), JsonStr("55"), JsonStr("54"), JsonStr("high"), JsonNull }

JsonVulns ==
    { [path |-> "/api/orders/{id}", vulnerability_type |-> t, confidence |-> c] :
        t \in {"BOLA", "Missing Role Guard", "SQL Injection"}, c \in JsonConfidences }

Severities == {"Low", "Medium", "High", "Critical"}

FilterInit == filtered = Null

\* A caller filters the vulnerabilities column of a scan row.
FilterCall(vulnerabilities, scan_severity) ==
    /\ filtered = Null
    /\ filtered' = [vulnerabilities |-> vulnerabilities, scan_severity |-> scan_severity,
                    returned |-> filter_qualifying_json(vulnerabilities, scan_severity)]
    /\ UNCHANGED <<dispVars, scanVars, hookVars, parseVars, redVars, walkVars,
                   retryVars>>

ToolInit == ParseInit /\ RedInit /\ WalkInit /\ FilterInit /\ RetryInit

\* A caller (the /vulnerabilities routes) fetches the list.
FetchCall(model, response) ==
    /\ fetched' = [model |-> model, response |-> response,
                   returned |-> fetch_vulnerabilities(model, response)]
    /\ UNCHANGED <<cycle, session, findings, dispVars, scanVars, hookVars, parseVars, moreVars>>

\* run_full_red_team_cycle (model = None) lines 229-231 and
\* run_model_red_team_cycle lines 286-288, up to the loop of simulate_attacks.
\* simulate_attacks lines 172-174 returns [] for an empty list.
StartCycle(model, db, response) ==
    /\ cycle.pc = "idle"
    /\ LET vulns == fetch_vulnerabilities(model, response)
       IN  cycle' = [cycle EXCEPT !.pc = IF vulns = << >> THEN "summary" ELSE "simulate",
                                  !.model = model, !.db = db, !.vulns = vulns]
    /\ UNCHANGED <<session, findings, fetched, dispVars, scanVars, hookVars, parseVars, moreVars>>

\* _generate_attack_result lines 132-152, with success the draw of random.random.
AttackResult(vuln, attack, success, model_source) ==
    [vulnerability_title |-> vuln.title, attack_name |-> attack,
     attack_successful |-> success, model_source |-> model_source,
     validated_by |-> IF "validated_by" \in DOMAIN vuln THEN vuln.validated_by ELSE "unknown"]

ModelSource(model) == IF model = None THEN "combined" ELSE model

\* simulate_attacks lines 179-188: one or two attacks are drawn for the next
\* vulnerability, each succeeds or not.
SimulateVuln(draws) ==
    /\ cycle.pc = "simulate"
    /\ LET k == cycle.k + 1
           results == [a \in 1..Len(draws) |->
                          AttackResult(cycle.vulns[k], a, draws[a], ModelSource(cycle.model))]
           attack_results == cycle.attack_results \o results
           done == k = Len(cycle.vulns)
       IN  cycle' = [cycle EXCEPT
                        !.k = k, !.attack_results = attack_results,
                        !.pc = IF ~done THEN "simulate"
                               ELSE IF cycle.db /\ attack_results # << >> THEN "store"
                               ELSE "summary"]
    /\ UNCHANGED <<session, findings, fetched, dispVars, scanVars, hookVars, parseVars, moreVars>>

\* Lines 237-247 / 294-304.
Finding(result, model) ==
    [title |-> IF model = None THEN <<"Exploitable:", result.vulnerability_title>>
               ELSE <<upper(model), "Exploitable:", result.vulnerability_title>>,
     status |-> "open", category |-> result.attack_name,
     evidence |-> <<"Simulated attack successful.", ModelSource(model)>>]

\* The test on attack_successful inverted.
FindingUnlessFailed(result, model) ==
    IF result.attack_successful THEN << >> ELSE <<Finding(result, model)>>

FindingIfSuccessful(result, model) ==
    IF result.attack_successful THEN <<Finding(result, model)>> ELSE << >>

\* Lines 235-249 / 292-306: one turn of the loop over attack_results.
StoreResult ==
    /\ cycle.pc = "store"
    /\ LET r == cycle.r + 1
           new == FindingIfSuccessful(cycle.attack_results[r], cycle.model)
           created == cycle.findings_created + Len(new)
       IN  /\ session' = session \o new
           /\ cycle' = [cycle EXCEPT
                           !.r = r, !.findings_created = created,
                           !.pc = IF r < Len(cycle.attack_results) THEN "store"
                                  ELSE IF created > 0 THEN "commit" ELSE "summary"]
    /\ UNCHANGED <<findings, fetched, dispVars, scanVars, hookVars, parseVars, moreVars>>

\* Lines 251-252 / 308-309: await db.commit().
Commit ==
    /\ cycle.pc = "commit"
    /\ findings' = findings \o session
    /\ session' = << >>
    /\ cycle' = [cycle EXCEPT !.pc = "summary"]
    /\ UNCHANGED <<fetched, dispVars, scanVars, hookVars, parseVars, moreVars>>

\* db.commit() raises: the cycle raises, the session's pending rows are dropped.
CommitRaises ==
    /\ cycle.pc = "commit"
    /\ session' = << >>
    /\ cycle' = [cycle EXCEPT !.pc = "raised"]
    /\ UNCHANGED <<findings, fetched, dispVars, scanVars, hookVars, parseVars, moreVars>>

\* Lines 254-272 / 311-330.
ReturnSummary ==
    /\ cycle.pc = "summary"
    /\ cycle' = [cycle EXCEPT
                    !.pc = "returned",
                    !.summary =
                        [vulnerabilities_analyzed |-> Len(cycle.vulns),
                         total_attacks_simulated |-> Len(cycle.attack_results),
                         successful_attacks |->
                             Len(SelectSeq(cycle.attack_results,
                                           LAMBDA x : x.attack_successful)),
                         findings_created |-> cycle.findings_created]]
    /\ UNCHANGED <<session, findings, fetched, dispVars, scanVars, hookVars, parseVars, moreVars>>

\* ---------------------------------------------------------------- specifications
Init == DispInit /\ ScanInit /\ HookInit /\ ToolInit

\* A single-dispatcher deployment: one worker slot runs every invocation of
\* process_new_findings, periodic or triggered, one after the other.
NextDispatcher ==
    \/ InsertScanResult(MaxScans, ScanLists)
    \/ BeatTick("slot1")
    \/ trigger_processing("slot1")
    \/ Lookup("slot1")
    \/ Comment("slot1")
    \/ Create("slot1")
    \/ Mark("slot1")

SpecDispatcher == Init /\ [][NextDispatcher]_vars

\* Two worker slots: a periodic tick and a triggered run may overlap.  The store
\* and the tracker answer every call in this specification.
OverlapInit == DispInitWith(MaxFaults) /\ ScanInit /\ HookInit /\ ToolInit

NextOverlap ==
    \/ InsertScanResult(OverlapScans, OverlapLists)
    \/ BeatTick("slot1")
    \/ trigger_processing("slot2")
    \/ \E r \in Slots : Lookup(r)
    \/ \E r \in Slots : Comment(r)
    \/ \E r \in Slots : Create(r)
    \/ \E r \in Slots : Mark(r)

SpecOverlap == OverlapInit /\ [][NextOverlap]_vars

\* A scan of up to NumItems relevant items: the fan-out behind the semaphore,
\* then the collect loop and the INSERT.
NextFanout ==
    \/ \E n \in 0..NumItems : BeginScan(n)
    \/ \E i \in DOMAIN task : Acquire(i)
    \/ \E i \in DOMAIN task : \E response \in FanoutResponses("mistral") :
           MistralReturns(i, response)
    \/ \E i \in DOMAIN task : \E response \in FanoutResponses("qwen") :
           QwenReturns(i, response)
    \/ \E i \in DOMAIN task : \E outcome \in FanoutOutcomes : Validate(i, outcome)
    \/ Gather
    \/ Collect
    \/ Persist

SpecFanout == Init /\ [][NextFanout]_vars

\* Calls of the severity filter on the lists a scan row can hold.
NextFilter ==
    \E vulnerabilities \in SeqsUpTo(JsonVulns, MaxFiltered) :
        \E scan_severity \in Severities : FilterCall(vulnerabilities, scan_severity)

SpecFilter == Init /\ [][NextFilter]_vars

\* The walk over the files of an archive.
NextWalk == \E file \in WalkFiles : WalkFile(file)

SpecWalk == Init /\ [][NextWalk]_vars

\* A scan of a few items with different verdicts, some of them raising.
NextAttribution ==
    \/ \E n \in 1..AttrItems : BeginScan(n)
    \/ \E i \in DOMAIN task : Acquire(i)
    \/ \E i \in DOMAIN task : \E response \in AttrResponses("mistral") :
           MistralReturns(i, response)
    \/ \E i \in DOMAIN task : \E response \in AttrResponses("qwen") :
           QwenReturns(i, response)
    \/ \E i \in DOMAIN task : \E outcome \in AttrOutcomes : Validate(i, outcome)
    \/ \E i \in DOMAIN task : AnalysisRaises(i)
    \/ Gather
    \/ Collect
    \/ Persist

SpecAttribution == Init /\ [][NextAttribution]_vars

\* One analyze_endpoint call, over every answer of the reviewers and the validator.
NextEngine ==
    \/ \E code \in ItemCodes : BeginItem(code)
    \/ \E i \in DOMAIN task : Acquire(i)
    \/ \E i \in DOMAIN task : \E response \in EngineResponses("mistral") :
           MistralReturns(i, response)
    \/ \E i \in DOMAIN task : \E response \in EngineResponses("qwen") :
           QwenReturns(i, response)
    \/ \E i \in DOMAIN task : \E outcome \in GeminiOutcomes : Validate(i, outcome)

SpecEngine == Init /\ [][NextEngine]_vars

\* The scoring and persisting half of run_security_scan, over the results a
\* fan-out can return, and the path with no relevant item.
NextScore ==
    \/ DownloadFails
    \/ BeginScan(0)
    \/ run_all(ScoreVerdicts)
    \/ Collect
    \/ Persist

SpecScore == Init /\ [][NextScore]_vars

\* Requests arriving at POST /webhook.
NextWebhook ==
    \E payload_body \in WebhookBodies :
        \E x_hub_signature_256 \in WebhookHeaders(payload_body) :
            github_webhook(payload_body, x_hub_signature_256)

SpecWebhook == Init /\ [][NextWebhook]_vars

\* A source file is assembled, then parsed.
NextParser ==
    \/ \E f \in FunctionDefs : WriteFunction(f)
    \/ ParseCall

SpecParser == Init /\ [][NextParser]_vars

\* Callers fetching the vulnerability list, for each model argument.
NextFetch ==
    \E model \in ModelArguments : \E response \in BackendResponses :
        FetchCall(model, response)

SpecFetch == Init /\ [][NextFetch]_vars

\* One red-team cycle, full or scoped to a model, with or without a session.
NextRedTeam ==
    \/ \E model \in ModelArguments : \E db \in BOOLEAN : \E response \in CycleResponses :
           StartCycle(model, db, response)
    \/ \E draws \in [1..1 -> BOOLEAN] \cup [1..2 -> BOOLEAN] : SimulateVuln(draws)
    \/ StoreResult
    \/ Commit
    \/ CommitRaises
    \/ ReturnSummary

SpecRedTeam == Init /\ [][NextRedTeam]_vars

\* One tracker call.  An attempt ends within the client's 10 s timeout and a
\* sleep ends, so neither step is postponed for ever.
NextRetry ==
    \/ CallTracker
    \/ AttemptSucceeds
    \/ AttemptFails
    \/ Wake

SpecRetry ==
    /\ Init
    /\ [][NextRetry]_vars
    /\ WF_vars(AttemptSucceeds \/ AttemptFails)
    /\ WF_vars(Wake)

\* The dispatcher ticking for ever over a table that worker scans and another
\* writer fill; the store and the tracker answer every call.  celery beat queues
\* the tick every POLLING_INTERVAL_SECONDS and the worker runs each step of it.
NextBacklog ==
    \/ InsertScanResult(MaxScans, ScanLists)
    \/ InsertForeignRow(MaxScans)
    \/ BeatTick("slot1")
    \/ TaskRaises("slot1")
    \/ Lookup("slot1")
    \/ Comment("slot1")
    \/ Create("slot1")
    \/ Mark("slot1")

SpecBacklog ==
    /\ OverlapInit
    /\ [][NextBacklog]_vars
    /\ WF_vars(BeatTick("slot1"))
    /\ WF_vars(TaskRaises("slot1"))
    /\ WF_vars(Lookup("slot1"))
    /\ WF_vars(Comment("slot1"))
    /\ WF_vars(Create("slot1"))
    /\ WF_vars(Mark("slot1"))

\* ---------------------------------------------------------------- dispatcher claims
CurTriple(r) == <<CurScan(r).repo_name, CurVuln(r).path, CurVuln(r).vulnerability_type>>

CurOpenRows(r) == OpenRows(CurTriple(r)[1], CurTriple(r)[2], CurTriple(r)[3])

\* C1: for every (repo_name, endpoint_or_file, vulnerability_type) the table
\* jira_issues holds at most one row whose jira_status is 'Open'.
C1_AtMostOneOpenRowPerTriple ==
    \A i, j \in DOMAIN jira_issues :
        ( /\ jira_issues[i].repo_name = jira_issues[j].repo_name
          /\ jira_issues[i].endpoint_or_file = jira_issues[j].endpoint_or_file
          /\ jira_issues[i].vulnerability_type = jira_issues[j].vulnerability_type
          /\ jira_issues[i].jira_status = "Open"
          /\ jira_issues[j].jira_status = "Open" ) => i = j

\* C2: handling a qualifying vulnerability whose triple already has an Open ticket
\* row creates no new ticket, neither in the tracker nor in jira_issues (the
\* recurrence is at most a comment on the existing ticket).
C2_RecurrenceCreatesNoTicket ==
    [][ \A r \in Slots :
          ( /\ run[r].pc \in {"lookup", "act"}
            /\ run'[r] # run[r]
            /\ CurOpenRows(r) # {} )
          => /\ Len(tracker') = Len(tracker)
             /\ Len(jira_issues') = Len(jira_issues) ]_vars

\* C3: once a tick has returned, and no scan result has arrived since, a later
\* invocation creates no ticket and adds no comment for a scan that tick handled.
C3_ReinvocationIsIdempotent ==
    [][ \A r \in Slots :
          ( /\ run[r].pc = "act"
            /\ run'[r] # run[r]
            /\ CurScanId(r) \in handled )
          => tracker' = tracker ]_vars

\* C4: whatever fails while a vulnerability of a scan is handled (duplicate lookup,
\* comment, ticket creation, ticket-row insert), the invocation goes on to the
\* next vulnerability or to the checkpoint of that same scan.
C4_VulnFailureNeverSkipsCheckpoint ==
    [][ \A r \in Slots :
          run[r].pc \in {"lookup", "act"}
          => /\ run'[r].pc \in {"lookup", "act", "mark"}
             /\ run'[r].scans = run[r].scans
             /\ run'[r].k = run[r].k ]_vars

\* C5: each scan identifier appears at most once in jira_processed_scans.
C5_ScanCheckpointedAtMostOnce ==
    \A i, j \in DOMAIN jira_processed_scans :
        jira_processed_scans[i] = jira_processed_scans[j] => i = j

\* C5 witness: mark_scan_processed ran its INSERT twice for one scan (two
\* overlapping invocations had both fetched it) and the scan is checkpointed.
C5_Witness ==
    \E s \in DOMAIN scan_results : marks[s] >= 2 /\ IsProcessed(s)

\* ---------------------------------------------------------------- scan claims
\* Reviewer completion requests (Mistral, Qwen) that are in flight.
InFlight ==
    Cardinality({ i \in DOMAIN task : task[i].mistral_call = "inflight" })
    + Cardinality({ i \in DOMAIN task : task[i].qwen_call = "inflight" })

\* C6: during a scan, never more than 5 reviewer calls are in flight at once.
C6_AtMostFiveReviewerCallsInFlight == InFlight <= 5

\* C7: a verdict analyze_endpoint returns with has_vulnerability true has a
\* confidence in 56..100 and a kind other than None.
C7_FlaggedVerdictIsConfident ==
    \A i \in DOMAIN task :
        (task[i].pc = "done" /\ task[i].res.result.has_vulnerability)
        => /\ task[i].res.result.confidence \in 56..100
           /\ task[i].res.result.vulnerability_type # "None"

\* C8: the webhook answers "Scan triggered" only to a request whose signature
\* header is sha256= plus the HMAC-SHA256 of the body under the shared secret and
\* whose event is a pull_request opened, synchronized or reopened.
C8_ScanTriggeredOnlyIfSigned ==
    \A k \in DOMAIN webhook_log :
        webhook_log[k].response.status = "success"
        => /\ webhook_log[k].signature
                 = SignatureHeader(GITHUB_WEBHOOK_SECRET, webhook_log[k].body)
           /\ webhook_log[k].body.pull_request
           /\ webhook_log[k].body.action \in {"opened", "synchronize", "reopened"}

\* The severity bands of the specification.
Band(score) ==
    CASE score <= 30 -> "Critical"
      [] score > 30 /\ score <= 60 -> "High"
      [] score > 60 /\ score <= 80 -> "Medium"
      [] score > 80 -> "Low"

\* C9: every persisted scan_results row has severity = band(score), on the path
\* with no relevant item and on the scored path.
C9_SeverityIsBandOfScore ==
    \A k \in DOMAIN scan_results :
        scan_results[k].severity = Band(scan_results[k].auth_integrity_score)

\* C9 witness: a scored scan persisted a row whose score sits on a band's edge.
C9_Witness ==
    \E k \in DOMAIN scan_results :
        /\ scan_results[k].vulnerabilities # << >>
        /\ scan_results[k].auth_integrity_score \in {30, 60, 80}

\* The penalty table of the specification.
Penalty(kind) ==
    IF kind = "BOLA" THEN 25
    ELSE IF kind \in {"IDOR", "Privilege Escalation"} THEN 20
    ELSE IF kind = "Missing Authentication" THEN 15
    ELSE IF kind = "Missing Role Guard" THEN 10
    ELSE IF kind = "Inconsistent Middleware" THEN 8
    ELSE 5

RECURSIVE PenaltySum(_, _)
PenaltySum(vulnerabilities, S) ==
    IF S = {} THEN 0
    ELSE LET n == CHOOSE n \in S : TRUE
         IN  (Penalty(vulnerabilities[n].vulnerability_type)
                  * vulnerabilities[n].confidence) \div 100
             + PenaltySum(vulnerabilities, S \ {n})

Clamp(x, lo, hi) == IF x < lo THEN lo ELSE IF x > hi THEN hi ELSE x

\* C10: the score calculate_score gives for the collected vulnerabilities is
\* clamp(100 - sum of floor(penalty(kind) * confidence / 100), 0, 100), an
\* integer in 0..100; a single BOLA at confidence 86 gives 79, Medium.
C10_ScoreIsClampedPenaltySum ==
    (scan.pc \in {"persist", "returned"} /\ scan.score_data # Null)
    => /\ scan.score_data.score
            = Clamp(100 - PenaltySum(scan.final_vulns, DOMAIN scan.final_vulns), 0, 100)
       /\ scan.score_data.score \in 0..100
       /\ ( /\ Len(scan.final_vulns) = 1
            /\ scan.final_vulns[1].vulnerability_type = "BOLA"
            /\ scan.final_vulns[1].confidence = 86 )
          => scan.score_data = [score |-> 79, severity |-> "Medium"]

\* C10 witness: the scan scored a single BOLA at confidence 86.
C10_Witness ==
    /\ scan.pc = "persist"
    /\ Len(scan.final_vulns) = 1
    /\ scan.final_vulns[1].vulnerability_type = "BOLA"
    /\ scan.final_vulns[1].confidence = 86

\* C11: a run_security_scan whose INSERT INTO scan_results failed returns a
\* result with status 'error', never 'success'.
C11_FailedWriteReturnsError ==
    [][ (scan.pc = "persist" /\ scan'.pc = "returned" /\ scan_results' = scan_results)
        => scan'.result.status = "error" ]_vars


\* ---------------------------------------------------------------- validator claims
\* A task of the scan returns its verdict in this step.
Returns(i) == task[i].pc # "done" /\ task'[i].pc = "done"

\* C12 as stated: once gemini_client.available is False it stays False, and no
\* analyze_endpoint call returns a gemini_validated verdict from then on.
C12_NoValidatedVerdictAfterExhaustion ==
    [][ (~gemini_available /\ scan.pc = "fanout")
        => /\ ~gemini_available'
           /\ \A i \in DOMAIN task :
                  Returns(i) => task'[i].res.status # "gemini_validated" ]_vars

\* C12 amended: once gemini_client.available is False it stays False, and an
\* analyze_endpoint call that has not yet reached its validator step never
\* calls the validator and never returns a gemini_validated verdict.  (A
\* validate call that was already awaiting its model may still answer.)
C12_NoNewValidationAfterExhaustion ==
    [][ (~gemini_available /\ scan.pc = "fanout")
        => /\ ~gemini_available'
           /\ \A i \in DOMAIN task :
                  task[i].pc \in {"pending", "reviewers"}
                  => /\ task'[i].pc # "validator"
                     /\ task'[i].pc = "done"
                        => /\ task'[i].gemini_result = Null
                           /\ task'[i].res.status # "gemini_validated" ]_vars

\* The validator is exhausted, and a call whose reviewers both answered has
\* returned without the validator's opinion.
C12_Witness ==
    /\ ~gemini_available
    /\ \E i \in DOMAIN task :
           /\ task[i].pc = "done"
           /\ Truthy(task[i].mistral_result) /\ Truthy(task[i].qwen_result)
           /\ task[i].gemini_result = Null
           /\ task[i].res.status = "consensus"

\* ---------------------------------------------------------------- parser claims
\* The decorator has the form <router>.<method>(<literal path>, ...).
IsRouteDecorator(d) ==
    /\ d.node = "Call"
    /\ d.func.node = "Attribute"
    /\ d.func.attr \in http_methods
    /\ Len(d.args) > 0
    /\ d.args[1].node = "Constant"

RouteDecorators(f) ==
    { f.decorator_list[k] : k \in { n \in DOMAIN f.decorator_list :
                                       IsRouteDecorator(f.decorator_list[n]) } }

\* The names passed to Depends in the default positions of a def node.
DependsNames(f) ==
    LET ds == f.args.defaults \o f.args.kw_defaults
    IN  { ds[k].args[1].id :
            k \in { n \in DOMAIN ds :
                      /\ ds[n] # Null
                      /\ ds[n].node = "Call"
                      /\ ds[n].func = Name("Depends")
                      /\ Len(ds[n].args) > 0
                      /\ ds[n].args[1].node = "Name" } }

Range(seq) == { seq[k] : k \in DOMAIN seq }

\* The records of a returned list that were made from the k-th def node.
RecordsOf(endpoints, k) ==
    { i \in DOMAIN endpoints : endpoints[i].function_name = <<"f", k>> }

\* What C13 says of one returned list, for the def nodes whose route
\* decorators satisfy Paths.
EndpointListIsRight(endpoints, Paths(_)) ==
    /\ \A k \in DOMAIN source_code :
          LET f == source_code[k]
              routes == RouteDecorators(f)
          IN  /\ (routes # {} /\ \A d \in routes : Paths(d.args[1].value))
                 => /\ Cardinality(RecordsOf(endpoints, k)) = 1
                    /\ \A i \in RecordsOf(endpoints, k) :
                          /\ \E d \in routes :
                                /\ endpoints[i].method = upper(d.func.attr)
                                /\ endpoints[i].path = d.args[1].value
                          /\ DependsNames(f) \subseteq Range(endpoints[i].guards)
              /\ f.decorator_list = << >> => RecordsOf(endpoints, k) = {}
    /\ \A i, j \in DOMAIN endpoints :
          i < j => endpoints[i].function_name[2] < endpoints[j].function_name[2]

AnyPath(p) == TRUE
NonEmptyPath(p) == p # ""

\* C13: every list parse_fastapi_code returns has exactly one record, in source
\* order, per def node decorated <router>.<method>(<literal path>), with the
\* method uppercased, that path, and the Depends names among its guards; none
\* for an undecorated def node; and two parses of a file return the same list.
C13_OneRecordPerRoute ==
    /\ \A n \in DOMAIN parsed : EndpointListIsRight(parsed[n], AnyPath)
    /\ \A n, m \in DOMAIN parsed : parsed[n] = parsed[m]

\* The same with the def nodes whose literal path is the empty string left out.
NonEmptyPathsParseRight ==
    /\ \A n \in DOMAIN parsed : EndpointListIsRight(parsed[n], NonEmptyPath)
    /\ \A n, m \in DOMAIN parsed : parsed[n] = parsed[m]

\* ---------------------------------------------------------------- red-team claims
Successful(results) == SelectSeq(results, LAMBDA x : x.attack_successful)

\* The Finding rows the cycle has put in the session or the table so far.
CycleFindings == findings \o session

\* C14: a cycle that returned with a session has one committed Finding, status
\* open, per successful attack result and in their order, none for the others,
\* reports findings_created = the number of successful results, and the table
\* only ever changes by one commit of all of them; with no session there is no
\* Finding at all.
C14_OneOpenFindingPerSuccessfulAttack ==
    /\ cycle.pc = "returned"
       => /\ session = << >>
          /\ IF cycle.db
             THEN /\ Len(findings) = Len(Successful(cycle.attack_results))
                  /\ \A n \in DOMAIN findings :
                        /\ findings[n].status = "open"
                        /\ findings[n].category
                           = Successful(cycle.attack_results)[n].attack_name
                  /\ cycle.summary.findings_created = Len(Successful(cycle.attack_results))
             ELSE findings = << >>
    /\ ~cycle.db => CycleFindings = << >>
    /\ findings # << >> => (cycle.pc \in {"summary", "returned"} /\ session = << >>)

\* A cycle with a session returned after attacks of both outcomes.
C14_Witness ==
    /\ cycle.pc = "returned"
    /\ cycle.db
    /\ \E a, b \in DOMAIN cycle.attack_results :
          cycle.attack_results[a].attack_successful
          /\ ~cycle.attack_results[b].attack_successful
    /\ findings # << >>

\* The tags C15 gives for each model argument.
TwoReviewerTags == {"consensus", "judged", "gemini_validated"}

ClaimedTags(model) ==
    IF model = "qwen" THEN TwoReviewerTags
    ELSE IF model = "mistral" THEN TwoReviewerTags \cup {"fallback_mistral"}
    ELSE BackendTags \cup {""}

\* C15: a fetch_vulnerabilities call answered with status 200 returns, in their
\* order, exactly the listed vulnerabilities whose validated_by is consensus,
\* judged or gemini_validated for 'qwen', those and fallback_mistral for
\* 'mistral', and all of them for no model; no fallback_mistral vulnerability
\* is returned for 'qwen'.
C15_FetchFiltersByProvenance ==
    (fetched # Null /\ ~fetched.response.raises /\ fetched.response.status_code = 200)
    => /\ fetched.returned
          = SelectSeq(fetched.response.json,
                      LAMBDA v : GetValidatedBy(v) \in ClaimedTags(fetched.model))
       /\ fetched.model = "qwen"
          => \A n \in DOMAIN fetched.returned :
                GetValidatedBy(fetched.returned[n]) # "fallback_mistral"

\* A 'qwen' fetch of a list holding a fallback_mistral and a consensus
\* vulnerability returned one of the two.
C15_Witness ==
    /\ fetched # Null
    /\ fetched.model = "qwen"
    /\ ~fetched.response.raises
    /\ fetched.response.status_code = 200
    /\ \E a, b \in DOMAIN fetched.response.json :
          /\ GetValidatedBy(fetched.response.json[a]) = "fallback_mistral"
          /\ GetValidatedBy(fetched.response.json[b]) = "consensus"
    /\ Len(fetched.returned) = 1

\* ---------------------------------------------------------------- consensus claims
DoneTasks == { i \in DOMAIN task : task[i].pc = "done" }

\* C16: analyze_endpoint returns the validator's verdict, tagged
\* gemini_validated, exactly when the validator gave a parsed verdict with
\* confidence > 50; a validator verdict with confidence <= 50 is not used.
C16_ValidatorWinsIffConfidenceAbove50 ==
    \A i \in DoneTasks :
        LET t == task[i]
            accepted == t.gemini_result # Null /\ t.gemini_result.confidence > 50
        IN  /\ t.res.status = "gemini_validated" <=> accepted
            /\ accepted => t.res.result = t.gemini_result

\* What a reviewer's result is when its text held no JSON object.
Unparseable(r) == r = CleanResult("Parse error")

\* The single-witness rule: flag iff the one opinion flags with confidence > 70.
SingleWitnessFlags(r) == r.has_vulnerability /\ r.confidence > 70

\* C17: with no validator verdict accepted, a reviewer whose text could not be
\* parsed counts as no opinion: if both are unparseable the tag is all_failed,
\* if one is, the verdict flags iff the other flags with confidence > 70.
C17_UnparseableIsNoOpinion ==
    \A i \in DoneTasks :
        LET t == task[i]
            m == t.mistral_result
            q == t.qwen_result
        IN  (~GeminiWins(t.gemini_result) /\ m # Null /\ q # Null)
            => /\ (Unparseable(m) /\ Unparseable(q)) => t.res.status = "all_failed"
               /\ (Unparseable(m) /\ ~Unparseable(q))
                  => (t.res.result.has_vulnerability <=> SingleWitnessFlags(q))
               /\ (Unparseable(q) /\ ~Unparseable(m))
                  => (t.res.result.has_vulnerability <=> SingleWitnessFlags(m))

\* C18: analyze_endpoint of an item whose source is empty returns a None
\* verdict tagged skipped, and calls neither a reviewer nor the validator.
C18_EmptySourceIsSkipped ==
    \A i \in DOMAIN task :
        task[i].code = ""
        => /\ task[i].pc \in {"pending", "done"}
           /\ task[i].pc = "done"
              => /\ task[i].res.status = "skipped"
                 /\ ~task[i].res.result.has_vulnerability
                 /\ task[i].res.result.vulnerability_type = "None"

\* The done tasks whose verdict was left to the merge of two reviewer opinions,
\* both flagging.
BothFlag(t) ==
    /\ t.pc = "done"
    /\ ~GeminiWins(t.gemini_result)
    /\ t.mistral_result # Null /\ t.qwen_result # Null
    /\ t.mistral_result.has_vulnerability /\ t.qwen_result.has_vulnerability

\* C19: both reviewers flag the same kind and no validator verdict is accepted:
\* the tag is consensus, the kind theirs, the confidence
\* min(100, floor(mean * 1.15)), the reasoning that of the higher-confidence
\* reviewer (Mistral on a tie) behind '[Consensus]'.
C19_AgreementGivesBoostedConsensus ==
    \A i \in DOMAIN task :
        LET t == task[i]
            m == t.mistral_result
            q == t.qwen_result
        IN  (BothFlag(t) /\ m.vulnerability_type = q.vulnerability_type)
            => /\ t.res.status = "consensus"
               /\ t.res.result.has_vulnerability
               /\ t.res.result.vulnerability_type = m.vulnerability_type
               /\ t.res.result.confidence
                  = Min(100, (23 * (m.confidence + q.confidence)) \div 40)
               /\ t.res.result.reasoning
                  = <<"[Consensus]">>
                    \o (IF m.confidence >= q.confidence THEN m.reasoning ELSE q.reasoning)

\* Mistral BOLA 80 and Qwen BOLA 70 were merged to BOLA 86, Mistral's reasoning.
C19_Witness ==
    \E i \in DOMAIN task :
        /\ BothFlag(task[i])
        /\ task[i].mistral_result = Opinion(TRUE, "BOLA", 80, <<"mistral">>)
        /\ task[i].qwen_result = Opinion(TRUE, "BOLA", 70, <<"qwen">>)
        /\ task[i].res = EngineResult("consensus",
                             Opinion(TRUE, "BOLA", 86, <<"[Consensus]", "mistral">>))

BothPresent(t) ==
    /\ t.pc = "done"
    /\ ~GeminiWins(t.gemini_result)
    /\ t.mistral_result # Null /\ t.qwen_result # Null

IsCleanVerdict(res) ==
    /\ res.status = "clean"
    /\ ~res.result.has_vulnerability
    /\ res.result.vulnerability_type = "None"
    /\ res.result.confidence = 0

EntriesOf(n) == { k \in DOMAIN scan.final_vulns : scan.final_vulns[k].path = ItemPath(n) }

\* C22: once the results are collected, every entry of final_vulns carries the
\* verdict of the task at the position of its item, in the order of the items;
\* an item whose analysis raised has no entry and every other flagged item has
\* exactly its own.
C22_VerdictsAttributedByPosition ==
    scan.pc \in {"persist", "returned"} /\ task # << >>
    => /\ \A k \in DOMAIN scan.final_vulns :
             \E n \in DOMAIN task :
                /\ scan.final_vulns[k].path = ItemPath(n)
                /\ task[n].res # ExceptionResult
                /\ scan.final_vulns[k].vulnerability_type
                   = task[n].res.result.vulnerability_type
                /\ scan.final_vulns[k].confidence = task[n].res.result.confidence
                /\ scan.final_vulns[k].validated_by = task[n].res.status
       /\ \A n \in DOMAIN task :
             IF task[n].res = ExceptionResult THEN EntriesOf(n) = {}
             ELSE (task[n].res.result.has_vulnerability /\ task[n].res.result.confidence > 55)
                  => Cardinality(EntriesOf(n)) = 1
       /\ \A j, k \in DOMAIN scan.final_vulns :
             j < k => scan.final_vulns[j].path[2] < scan.final_vulns[k].path[2]

\* The scan returned although the analysis of its first item raised, and its
\* only finding is the verdict of the second item, recorded for that item.
C22_Witness ==
    /\ scan.pc = "returned"
    /\ Len(task) >= 2
    /\ task[1].res = ExceptionResult
    /\ task[2].res # ExceptionResult
    /\ Len(scan.final_vulns) = 1
    /\ scan.final_vulns[1].path = ItemPath(2)
    /\ scan.final_vulns[1].validated_by = task[2].res.status

\* ---------------------------------------------------------------- extraction claims
EndpointItems == { k \in DOMAIN all_items : all_items[k].is_endpoint }
FunctionItems == { k \in DOMAIN all_items : ~all_items[k].is_endpoint }

NoTwoEndpointsPerRoute ==
    \A j, k \in EndpointItems :
        (all_items[j].method = all_items[k].method /\ all_items[j].path = all_items[k].path)
        => j = k

NoTwoFunctionsPerNameAndFile ==
    \A j, k \in FunctionItems :
        (all_items[j].function_name = all_items[k].function_name
         /\ all_items[j].file_path = all_items[k].file_path)
        => j = k

NoFunctionItemForAnEndpoint ==
    \A j \in EndpointItems : \A k \in FunctionItems :
        ~(all_items[j].file_path = all_items[k].file_path
          /\ all_items[j].lineno = all_items[k].lineno)

\* C23: the merged item list has no two endpoint items with one (method, path),
\* no two function items with one (name, file), and no function item for a
\* function that is in it as an endpoint.
C23_MergedItemsAreUnique ==
    /\ NoTwoEndpointsPerRoute
    /\ NoTwoFunctionsPerNameAndFile
    /\ NoFunctionItemForAnEndpoint

\* ---------------------------------------------------------------- filter claims
\* The rule of C24 for one entry, its confidence coerced by Coerce(_).
QualifiesByRule(vuln, scan_severity, Coerce(_)) ==
    /\ scan_severity \in {"High", "Critical"}
    /\ Coerce(vuln.confidence).value >= 55
    /\ \/ vuln.vulnerability_type
          \in {"BOLA", "IDOR", "Missing Authentication", "Privilege Escalation",
               "Missing Role Guard", "Inconsistent Middleware"}
       \/ scan_severity = "Critical"

FilterReturnsRule(call, Coerce(_)) ==
    /\ ~call.returned.raises
    /\ call.returned.qualifying
       = LET f[n \in 0..Len(call.vulnerabilities)] ==
                 IF n = 0 THEN << >>
                 ELSE IF QualifiesByRule(call.vulnerabilities[n], call.scan_severity,
                                         Coerce)
                      THEN Append(f[n - 1], <<n - 1, call.vulnerabilities[n]>>)
                      ELSE f[n - 1]
         IN  f[Len(call.vulnerabilities)]

\* C24: filter_qualifying_vulnerabilities returns, in order and with their
\* indices, exactly the entries with scan severity High or Critical, confidence
\* (coerced to int, 0 when it cannot be) >= 55, and a listed kind or scan
\* severity Critical.
C24_FilterReturnsQualifying ==
    filtered # Null => FilterReturnsRule(filtered, CoerceConfidenceOrZero)

\* The same for the lists whose confidences are integers or strings.
FilterRightOnNumbersAndStrings ==
    (filtered # Null
     /\ \A n \in DOMAIN filtered.vulnerabilities :
           filtered.vulnerabilities[n].confidence.type \in {"int", "str"})
    => FilterReturnsRule(filtered, CoerceConfidenceOrZero)

\* ---------------------------------------------------------------- fetch claims
\* Run r starts a tick in this step and fetched something.
Fetches(r) == run[r].pc = "idle" /\ run'[r].pc # "idle"

\* Run r creates a ticket or adds a comment in this step.
TicketsOrComments(r) == run[r].pc = "act" /\ run'[r] # run[r] /\ tracker' # tracker

FetchedByRule(scans) ==
    /\ Len(scans) <= 50
    /\ \A n \in DOMAIN scans :
          /\ scan_results[scans[n]].severity \in {"High", "Critical"}
          /\ ~IsProcessed(scans[n])
    /\ \A m, n \in DOMAIN scans : m < n => scans[m] < scans[n]

\* C25: a tick fetches only High or Critical scans without a checkpoint, at most
\* 50, oldest first, and no ticket or comment is made for a scan that is Low or
\* Medium or already has its checkpoint.
C25_TickHandlesOnlyOpenQualifyingScans ==
    [][\A r \in Slots :
          /\ Fetches(r) => FetchedByRule(run'[r].scans)
          /\ TicketsOrComments(r)
             => /\ CurScan(r).severity \in {"High", "Critical"}
                /\ ~IsProcessed(CurScanId(r))]_vars

\* The fetch alone: what a tick takes from the store.
TickFetchesByRule ==
    [][\A r \in Slots : Fetches(r) => FetchedByRule(run'[r].scans)]_vars

\* ---------------------------------------------------------------- tracker client claims
RequestOver == request.pc \in {"returned", "raised"}

\* The sleeps a call has made after n failed attempts.
SleepsAfter(n) ==
    CASE n = 0 -> << >>
      [] n = 1 -> <<2>>
      [] OTHER -> <<2, 4>>

\* C26: a tracker call makes at most 3 attempts and ends; it returns at the first
\* attempt that succeeds, has slept 2 s after a failed first and 4 s after a
\* failed second attempt, and after a failed third raises that attempt's error
\* with no further sleep.
C26_RetryIsBoundedAndEnds ==
    /\ [](request.attempt <= 3)
    /\ [](request.pc \in {"attempt", "returned"}
          => /\ Len(request.errors) = request.attempt - 1
             /\ request.slept = SleepsAfter(request.attempt - 1))
    /\ [](request.pc = "raised"
          => /\ Len(request.errors) = 3
             /\ request.last_error = request.errors[3]
             /\ request.slept = <<2, 4>>)
    /\ [][RequestOver => request' = request]_vars
    /\ (request.pc = "attempt" ~> RequestOver)

\* A call that failed three times, with different errors, and raised.
C26_Witness ==
    /\ request.pc = "raised"
    /\ request.errors = <<"ConnectError", "ReadTimeout", "HTTPStatusError">>

\* ---------------------------------------------------------------- backlog claims
IsQualifyingScan(s) ==
    /\ s \in DOMAIN scan_results
    /\ scan_results[s].severity \in {"High", "Critical"}

\* Neither scan s nor a scan older than it makes the filter raise.
NoRaisingScanUpTo(s) ==
    \A t \in 1..s :
        ~(/\ scan_results[t].severity \in {"High", "Critical"}
          /\ \E n \in DOMAIN scan_results[t].vulnerabilities :
                "json_string" \in DOMAIN scan_results[t].vulnerabilities[n])

\* C27: under repeated ticks every High or Critical scan result is eventually
\* checkpointed, whatever happens to the scans older than it.
C27_EveryQualifyingScanIsCheckpointed ==
    \A s \in 1..MaxScans : [](IsQualifyingScan(s) => <>IsProcessed(s))

\* The second half alone: a scan that does not raise is checkpointed in the end.
ScansThatDoNotRaiseAreCheckpointed ==
    \A s \in 1..MaxScans :
        []((IsQualifyingScan(s) /\ IsDict(scan_results[s].vulnerabilities[1]))
           => <>IsProcessed(s))

\* The scans with no raising scan before them are all checkpointed in the end.
UnblockedScansAreCheckpointed ==
    \A s \in 1..MaxScans :
        []((IsQualifyingScan(s) /\ NoRaisingScanUpTo(s)) => <>IsProcessed(s))

\* ---------------------------------------------------------------- overlap claims
\* The two runs are never inside the same scan together.
NoScanInBothRuns ==
    (run["slot1"].pc # "idle" /\ run["slot2"].pc # "idle")
    => CurScanId("slot1") # CurScanId("slot2")

\* No finding (scan, index) has two ticket rows.
NoTwoTicketsForOneFinding ==
    \A i, j \in DOMAIN jira_issues :
        (/\ jira_issues[i].scan_result_id = jira_issues[j].scan_result_id
         /\ jira_issues[i].finding_index = jira_issues[j].finding_index) => i = j

CommentsFor(s) ==
    LET n[key \in 0..Len(tracker)] ==
            IF key = 0 THEN 0
            ELSE n[key - 1]
                 + Cardinality({ c \in DOMAIN tracker[key].comments :
                                   tracker[key].comments[c].scan_id = s })
    IN  n[Len(tracker)]

TicketRowsFor(s) ==
    Cardinality({ i \in DOMAIN jira_issues : jira_issues[i].scan_result_id = s })

\* Each qualifying vulnerability of a scan got one ticket or one comment at most.
NoFindingHandledTwice ==
    \A s \in DOMAIN scan_results :
        TicketRowsFor(s) + CommentsFor(s)
        <= Len(filter_qualifying_vulnerabilities(scan_results[s].vulnerabilities,
                                                 scan_results[s].severity))

NoTwoOpenRowsForOneTriple ==
    \A i, j \in DOMAIN jira_issues :
        (/\ jira_issues[i].repo_name = jira_issues[j].repo_name
         /\ jira_issues[i].endpoint_or_file = jira_issues[j].endpoint_or_file
         /\ jira_issues[i].vulnerability_type = jira_issues[j].vulnerability_type
         /\ jira_issues[i].jira_status = "Open"
         /\ jira_issues[j].jira_status = "Open") => i = j

\* C28: when a tick and a triggered run overlap, no scan is handled by both: no
\* finding gets two tickets or is handled twice, and no triple is left with two
\* Open jira_issues rows.
C28_OverlappingRunsShareNoScan ==
    /\ NoScanInBothRuns
    /\ NoTwoTicketsForOneFinding
    /\ NoFindingHandledTwice
    /\ NoTwoOpenRowsForOneTriple

\* ---------------------------------------------------------------- ticket row claims
\* Every row names a ticket the tracker created.
EveryRowHasItsTicket ==
    \A i \in DOMAIN jira_issues : jira_issues[i].jira_issue_key \in DOMAIN tracker

\* Every ticket in the tracker has its row.
EveryTicketHasItsRow ==
    \A key \in DOMAIN tracker :
        \E i \in DOMAIN jira_issues : jira_issues[i].jira_issue_key = key

\* C29: a jira_issues row exists only for a ticket the tracker created, and every
\* ticket the dispatcher created has its jira_issues row.
C29_TicketsAndRowsCorrespond ==
    EveryRowHasItsTicket /\ EveryTicketHasItsRow

\* ---------------------------------------------------------------- provenance claims
\* C30: a verdict tagged fallback_mistral is the opinion of the Mistral reviewer,
\* the only one that survived; a verdict that flags on Qwen's opinion alone
\* carries a tag of the qwen simulation filter.
C30_FallbackTagMeansMistral ==
    \A i \in DOMAIN task :
        LET t == task[i]
        IN  t.pc = "done"
            => /\ t.res.status = "fallback_mistral"
                  => /\ t.mistral_result # Null
                     /\ t.qwen_result = Null
                     /\ t.res.result = t.mistral_result
               /\ (/\ t.mistral_result = Null
                   /\ t.qwen_result # Null
                   /\ t.res.result = t.qwen_result
                   /\ t.res.result.has_vulnerability)
                  => t.res.status \in {"consensus", "judged", "gemini_validated"}
====
